---------------------------- MODULE Spec2Model ----------------------------
(***************************************************************************)
(* Progressive sample generation (SampleCounter, SampleGenerator,          *)
(* ProgressiveFrameBuffer) and the texture store (TextureStore,            *)
(* TileSwapper) of appleseed.                                              *)
(*                                                                         *)
(* The module holds several specifications over disjoint groups of         *)
(* variables; the variables a specification does not use keep their        *)
(* initial value:                                                          *)
(*   SpecCounter  the sample counter alone, reserve(n) with arbitrary n    *)
(*   SpecSeq      generate_sample_vector alone, G generators               *)
(*   Spec         the benchmark: G jobs, one counter, one framebuffer      *)
(*   FairSpec     Spec with the job threads scheduled fairly               *)
(*   SpecTex      the texture store: get / release / load / unload         *)
(*   SpecLoad     one tile swapper: load step by step, unload, statistics  *)
(*   SpecCoord    generate_sample of two unrelated generators              *)
(*   SpecDiag     two runs that differ in the diagnostic parameters only   *)
(*   SpecParams   the max_size parameter: metadata and Parameters          *)
(*   SpecScene    the texture a tile key resolves to in load and unload    *)
(***************************************************************************)
EXTENDS Integers, Sequences, FiniteSets

VARIABLES
    \* ---- SpecCounter
    cnt,            \* the counter under test: [count, max]
    cnt_call,       \* the last reserve call: [requested, granted, before]
    cnt_granted,    \* sum of all amounts reserve has returned
    \* ---- SpecSeq
    seq_count,      \* generator_count the generators were constructed with
    seq_gen,        \* generator index -> SampleGenerator state
    seq_made,       \* generator index -> sequence of indices it evaluated
    \* ---- Spec / FairSpec
    contention,     \* ENABLE_SAMPLE_GENERATION_DURING_CONTENTION of the build
    counter,        \* Fixture::m_sample_counter: [count, max]
    gen,            \* generator index -> SampleGenerator state
    job,            \* generator index -> SampleGeneratorJob state
    fb,             \* Fixture::m_framebuffer: [lock (set of holders), count, indices]
    granted,        \* sum of all amounts reserve has returned
    \* ---- SpecTex
    tex_tile,       \* tile key -> TileRecord and its place in the tile cache
    tex_mem,        \* TileSwapper: [m_memory_size, m_peak_memory_size]
    tex_lock,       \* tile key -> threads holding the key's load serialization
    tex_thr,        \* thread -> its position in get / release / evict
    tex_aux,        \* bookkeeping: loads per key since its last eviction, ...
    \* ---- SpecLoad / SpecDiag
    ld,             \* tile swappers with their texture, record, sizes and log
    \* ---- SpecCoord / SpecDiag
    co,             \* generators with the samples (index, coordinates, seed) they made
    \* ---- SpecParams
    pa,             \* a ParamArray, the metadata and the Parameters made of it
    \* ---- SpecScene
    sc              \* a scene, a tile swapper built on it and a tile key

cntVars == <<cnt, cnt_call, cnt_granted>>
seqVars == <<seq_count, seq_gen, seq_made>>
genVars == <<contention, counter, gen, job, fb, granted>>
texVars == <<tex_tile, tex_mem, tex_lock, tex_thr, tex_aux>>
unitVars == <<ld, co, pa, sc>>
vars    == <<cntVars, seqVars, genVars, texVars, unitVars>>

Min(a, b) == IF a < b THEN a ELSE b
Max(a, b) == IF a < b THEN b ELSE a

(***************************************************************************)
(* Sizes.  The source's values are given in the comments; the model is     *)
(* parametric in them and is checked at the scaled values below.           *)
(***************************************************************************)
\* Generators and job threads (ThreadCount, 16 in the benchmark).
ThreadCount == 2
\* Request size of the job loop (BatchSize, 1 in the benchmark).
BatchSize == 1
\* Budget of the shared counter (MaxSampleCount, 16 * 1 * 8192 in the benchmark).
MaxSampleCount == 8
\* Length of one interleaving batch (SampleBatchSize, 67 in the source).
SampleBatchSize == 2
\* Request size on the contention path (AdditionalSampleBatchSize, 64 in the source).
AdditionalSampleBatchSize == 2
\* Cap on the additional samples of one store_samples call
\* (AdditionalSampleCount, 4096 = 64 * 64 in the source).
AdditionalSampleCount == AdditionalSampleBatchSize * AdditionalSampleBatchSize

\* SpecCounter: largest budget and largest request tried.
MaxBudget == 6
MaxRequest == 3
\* SpecSeq: most generators, most samples one generator produces, and the
\* largest count of one generate_sample_vector call.
MaxGenerators == 3
MaxSeqSamples == 6
MaxVectorCount == 3

Generators == 0 .. ThreadCount - 1

(***************************************************************************)
(* SampleCounter.  reserve(n) returns min(n, remaining) and adds it to the *)
(* reserved total in one atomic step; read() is the reserved total.        *)
(***************************************************************************)
NewCounter(max_sample_count) == [count |-> 0, max |-> max_sample_count]

Remaining(c) == c.max - c.count

ReserveGrant(c, n) == Min(n, Remaining(c))

ReserveNext_full(c, n) == [c EXCEPT !.count = c.count + n]

ReserveNext(c, n) == [c EXCEPT !.count = c.count + ReserveGrant(c, n)]

CounterRead(c) == c.count

(***************************************************************************)
(* SampleGenerator.                                                        *)
(***************************************************************************)
\* SampleGenerator::SampleGenerator.
InitialStride_whole(generator_count) == generator_count * SampleBatchSize

InitialStride(generator_count) == (generator_count - 1) * SampleBatchSize

InitialSequenceIndex_unscaled(generator_index) == generator_index

InitialSequenceIndex(generator_index) == generator_index * SampleBatchSize

NewGenerator(generator_index, generator_count) ==
    [m_stride              |-> InitialStride(generator_count),
     m_sequence_index      |-> InitialSequenceIndex(generator_index),
     m_current_batch_size  |-> 0,
     m_sample_count        |-> 0,
     m_samples             |-> <<>>,
     m_pfb_lock_acquired_immediately            |-> 0,
     m_pfb_lock_acquired_after_additional_work  |-> 0,
     m_pfb_lock_acquired_after_blocking         |-> 0,
     m_additional_sample_count |-> 0]

\* generate_sample: the sample is identified by the sequence index it was
\* computed from (its coordinates and its sampling context derive from it).
GenerateSample(g) == g.m_sequence_index

BatchComplete_late(current_batch_size) ==
    current_batch_size = SampleBatchSize + 1

\* The end-of-batch test of generate_sample_vector.
BatchComplete(current_batch_size) == current_batch_size = SampleBatchSize

\* One iteration of the loop of generate_sample_vector, writing slot `at`
\* (0-based) of m_samples.  Slots past the one written hold stale samples
\* that are never read; the model drops them.
GenerateOne(g, at) ==
    LET sample == GenerateSample(g)
        index1 == g.m_sequence_index + 1
        batch1 == g.m_current_batch_size + 1
    IN  [g EXCEPT
            !.m_samples = SubSeq(g.m_samples, 1, at) \o <<sample>>,
            !.m_sequence_index =
                IF BatchComplete(batch1) THEN index1 + g.m_stride ELSE index1,
            !.m_current_batch_size =
                IF BatchComplete(batch1) THEN 0 ELSE batch1]

RECURSIVE GenerateLoop(_, _, _)
GenerateLoop(g, at, count) ==
    IF count = 0 THEN g
    ELSE GenerateLoop(GenerateOne(g, at), at + 1, count - 1)

GenerateSampleVector_assign(g, index, count) ==
    LET h == GenerateLoop(g, index, count)
    IN  [h EXCEPT !.m_sample_count = count]

\* generate_sample_vector(index, count).
GenerateSampleVector(g, index, count) ==
    LET h == GenerateLoop(g, index, count)
    IN  [h EXCEPT !.m_sample_count = g.m_sample_count + count]

\* The samples store_samples hands to the framebuffer: m_sample_count
\* samples starting at &m_samples[0].
StoredSamples(g) == SubSeq(g.m_samples, 1, g.m_sample_count)

Range(s) == {s[i] : i \in DOMAIN s}

RECURSIVE SumOver(_, _)
SumOver(f, S) ==
    IF S = {} THEN 0
    ELSE LET x == CHOOSE y \in S : TRUE
         IN  f[x] + SumOver(f, S \ {x})

(***************************************************************************)
(* SpecCounter: any number of callers issue reserve(n), n arbitrary.       *)
(***************************************************************************)
IdleCnt ==
    /\ cnt = NewCounter(0)
    /\ cnt_call = [requested |-> 0, granted |-> 0, before |-> 0]
    /\ cnt_granted = 0

IdleSeq ==
    /\ seq_count = 0
    /\ seq_gen = <<>>
    /\ seq_made = <<>>

IdleGen ==
    /\ contention = FALSE
    /\ counter = NewCounter(0)
    /\ gen = <<>>
    /\ job = <<>>
    /\ fb = [lock |-> {}, count |-> 0, indices |-> {}]
    /\ granted = 0

IdleLoad == ld = <<>>

IdleCoord == co = <<>>

IdleParams == pa = <<>>

IdleScene == sc = <<>>

IdleUnit == IdleLoad /\ IdleCoord /\ IdleParams /\ IdleScene

IdleTex ==
    /\ tex_tile = <<>>
    /\ tex_mem = [m_memory_size |-> 0, m_peak_memory_size |-> 0]
    /\ tex_lock = <<>>
    /\ tex_thr = <<>>
    /\ tex_aux = <<>>

CounterInit ==
    /\ \E n \in 0 .. MaxBudget :
          /\ cnt = NewCounter(n)
          /\ cnt_call = [requested |-> 0, granted |-> 0, before |-> n]
    /\ cnt_granted = 0
    /\ IdleSeq
    /\ IdleGen
    /\ IdleTex
    /\ IdleUnit

CounterReserve(n) ==
    /\ cnt' = ReserveNext(cnt, n)
    /\ cnt_call' = [requested |-> n,
                    granted   |-> ReserveGrant(cnt, n),
                    before    |-> Remaining(cnt)]
    /\ cnt_granted' = cnt_granted + ReserveGrant(cnt, n)
    /\ UNCHANGED <<unitVars, seqVars, genVars, texVars>>

CounterNext == \E n \in 0 .. MaxRequest : CounterReserve(n)

SpecCounter == CounterInit /\ [][CounterNext]_vars

(***************************************************************************)
(* SpecSeq: G generators, each running generate_sample_vector from slot 0  *)
(* with arbitrary counts (generate_samples without the store).             *)
(***************************************************************************)
SeqInit ==
    /\ \E n \in 1 .. MaxGenerators :
          /\ seq_count = n
          /\ seq_gen = [i \in 0 .. n - 1 |-> NewGenerator(i, n)]
          /\ seq_made = [i \in 0 .. n - 1 |-> <<>>]
    /\ IdleCnt
    /\ IdleGen
    /\ IdleTex
    /\ IdleUnit

SeqGenerate(i, count) ==
    /\ Len(seq_made[i]) + count <= MaxSeqSamples
    /\ LET g == GenerateSampleVector(
                    [seq_gen[i] EXCEPT !.m_sample_count = 0], 0, count)
       IN  /\ seq_gen' = [seq_gen EXCEPT ![i] = g]
           /\ seq_made' = [seq_made EXCEPT ![i] = @ \o StoredSamples(g)]
    /\ UNCHANGED <<seq_count, cntVars, unitVars, genVars, texVars>>

SeqNext ==
    \E i \in DOMAIN seq_gen : \E count \in 1 .. MaxVectorCount :
        SeqGenerate(i, count)

SpecSeq == SeqInit /\ [][SeqNext]_vars

(***************************************************************************)
(* ProgressiveFrameBuffer.  try_store_samples takes the lock only if it is *)
(* free, store_samples waits for it; both merge the samples and release    *)
(* the lock.  The buffer keeps how many samples it received and which.     *)
(***************************************************************************)
NewFrameBuffer == [lock |-> {}, count |-> 0, indices |-> {}]

LockFree(f) == f.lock = {}

LockAcquire(f, g) == [f EXCEPT !.lock = {g}]

MergeAndRelease_keep(f, samples) ==
    [f EXCEPT !.count = f.count + Len(samples),
              !.indices = f.indices \cup Range(samples)]

MergeAndRelease_overwrite(f, samples) ==
    [f EXCEPT !.lock = {},
              !.count = Len(samples),
              !.indices = Range(samples)]

\* The merge done while the lock is held, then the release.
MergeAndRelease(f, samples) ==
    [f EXCEPT !.lock = {},
              !.count = f.count + Len(samples),
              !.indices = f.indices \cup Range(samples)]

(***************************************************************************)
(* Spec: the benchmark.  Job thread g runs SampleGeneratorJob::execute on  *)
(* generator g.  job[g].pc is the thread's position:                       *)
(*   "reserve"     at the reserve call of the loop of execute              *)
(*   "generate"    in generate_samples, before generate_sample_vector      *)
(*   "try"         store_samples, at the first try_store_samples           *)
(*   "additional"  store_samples, at the head of the while loop            *)
(*   "retry"       store_samples, at the try_store_samples of the loop     *)
(*   "block"       store_samples, at the blocking store_samples            *)
(*   "storing"     inside the framebuffer, holding its lock; acquired      *)
(*                 tells through which of the three calls                  *)
(*   "done"        execute has returned                                    *)
(***************************************************************************)
NewJob ==
    [pc |-> "reserve", sample_count |-> 0, max_sample_count |-> 0,
     tries |-> 0, batches |-> 0, acquired |-> "none"]

Init ==
    /\ contention \in BOOLEAN
    /\ counter = NewCounter(MaxSampleCount)
    /\ gen = [g \in Generators |-> NewGenerator(g, ThreadCount)]
    /\ job = [g \in Generators |-> NewJob]
    /\ fb = NewFrameBuffer
    /\ granted = 0
    /\ IdleCnt
    /\ IdleSeq
    /\ IdleTex
    /\ IdleUnit

LoopExit_partial(sample_count) ==
    sample_count # 0 /\ sample_count < BatchSize

LoopExit_early(sample_count) == sample_count <= BatchSize

\* execute: "if (sample_count == 0) break;".
LoopExit(sample_count) == sample_count = 0

\* execute: sample_count = reserve(BatchSize), then the exit test.
JobReserve(g) ==
    /\ job[g].pc = "reserve"
    /\ LET sample_count == ReserveGrant(counter, BatchSize)
       IN  /\ counter' = ReserveNext(counter, BatchSize)
           /\ granted' = granted + sample_count
           /\ job' = [job EXCEPT
                  ![g].sample_count = sample_count,
                  ![g].pc = IF LoopExit(sample_count) THEN "done" ELSE "generate"]
    /\ UNCHANGED <<contention, gen, fb, cntVars, unitVars, seqVars, texVars>>

StoreEntry_stalled == "stalled"

StoreEntry_skip == "reserve"

\* Where store_samples starts: the first try when the contention path is
\* compiled in, the blocking store otherwise.
StoreEntry == IF contention THEN "try" ELSE "block"

ResetSampleCount_keep(g) == g

\* generate_samples: "m_sample_count = 0;".
ResetSampleCount(g) == [g EXCEPT !.m_sample_count = 0]

\* generate_samples up to its call of store_samples.
GenerateSamples(g) ==
    /\ job[g].pc = "generate"
    /\ gen' = [gen EXCEPT ![g] =
                  GenerateSampleVector(ResetSampleCount(gen[g]),
                                       0, job[g].sample_count)]
    /\ job' = [job EXCEPT ![g].pc = StoreEntry,
                          ![g].tries = 0,
                          ![g].batches = 0]
    /\ UNCHANGED <<contention, counter, fb, granted, cntVars, unitVars, seqVars, texVars>>

\* store_samples: the first try_store_samples; on failure, max_sample_count.
TryStoreFirst(g) ==
    /\ job[g].pc = "try"
    /\ IF LockFree(fb)
       THEN /\ fb' = LockAcquire(fb, g)
            /\ job' = [job EXCEPT ![g].pc = "storing", ![g].tries = @ + 1,
                                  ![g].acquired = "immediately"]
       ELSE /\ fb' = fb
            /\ job' = [job EXCEPT
                   ![g].pc = "additional",
                   ![g].tries = @ + 1,
                   ![g].max_sample_count =
                       gen[g].m_sample_count + AdditionalSampleCount]
    /\ UNCHANGED <<contention, counter, gen, granted, cntVars, unitVars, seqVars, texVars>>

MoreAdditionalWork_uncapped(sample_count, max_sample_count) == TRUE

MoreAdditionalWork_inclusive(sample_count, max_sample_count) ==
    sample_count <= max_sample_count

\* store_samples: "while (m_sample_count < max_sample_count)".
MoreAdditionalWork(sample_count, max_sample_count) ==
    sample_count < max_sample_count

\* store_samples: one pass of the while loop up to its try_store_samples:
\* the loop test, reserve(AdditionalSampleBatchSize), the break on 0, and
\* generate_sample_vector(m_sample_count, additional_sample_count).
AdditionalWork(g) ==
    /\ job[g].pc = "additional"
    /\ IF MoreAdditionalWork(gen[g].m_sample_count, job[g].max_sample_count)
       THEN LET additional_sample_count ==
                    ReserveGrant(counter, AdditionalSampleBatchSize)
            IN  /\ counter' = ReserveNext(counter, AdditionalSampleBatchSize)
                /\ granted' = granted + additional_sample_count
                /\ IF additional_sample_count = 0
                   THEN /\ gen' = gen
                        /\ job' = [job EXCEPT ![g].pc = "block"]
                   ELSE /\ gen' = [gen EXCEPT ![g] =
                               [GenerateSampleVector(gen[g],
                                    gen[g].m_sample_count,
                                    additional_sample_count)
                                EXCEPT !.m_additional_sample_count =
                                    @ + additional_sample_count]]
                        /\ job' = [job EXCEPT ![g].pc = "retry",
                                              ![g].batches = @ + 1]
       ELSE /\ job' = [job EXCEPT ![g].pc = "block"]
            /\ UNCHANGED <<counter, granted, gen>>
    /\ UNCHANGED <<contention, fb, cntVars, unitVars, seqVars, texVars>>

\* store_samples: the try_store_samples inside the loop.
TryStoreAgain(g) ==
    /\ job[g].pc = "retry"
    /\ IF LockFree(fb)
       THEN /\ fb' = LockAcquire(fb, g)
            /\ job' = [job EXCEPT ![g].pc = "storing", ![g].tries = @ + 1,
                                  ![g].acquired = "after_additional_work"]
       ELSE /\ fb' = fb
            /\ job' = [job EXCEPT ![g].pc = "additional", ![g].tries = @ + 1]
    /\ UNCHANGED <<contention, counter, gen, granted, cntVars, unitVars, seqVars, texVars>>

\* store_samples: the blocking store_samples gets the lock.
BlockingStore(g) ==
    /\ job[g].pc = "block"
    /\ LockFree(fb)
    /\ fb' = LockAcquire(fb, g)
    /\ job' = [job EXCEPT ![g].pc = "storing",
                          ![g].acquired = "after_blocking"]
    /\ UNCHANGED <<contention, counter, gen, granted, cntVars, unitVars, seqVars, texVars>>

CountAcquisition_contended(g, acquired) ==
    CASE acquired = "after_additional_work" ->
             [g EXCEPT !.m_pfb_lock_acquired_after_additional_work = @ + 1]
      [] acquired = "after_blocking" ->
             [g EXCEPT !.m_pfb_lock_acquired_after_blocking = @ + 1]
      [] OTHER -> g

\* store_samples: the increment that follows the call that stored the
\* samples, "++m_pfb_lock_acquired_immediately" after the first
\* try_store_samples, "++m_pfb_lock_acquired_after_additional_work" after
\* the one of the loop, "++m_pfb_lock_acquired_after_blocking" after the
\* blocking store_samples.
CountAcquisition(g, acquired) ==
    CASE acquired = "immediately" ->
             [g EXCEPT !.m_pfb_lock_acquired_immediately = @ + 1]
      [] acquired = "after_additional_work" ->
             [g EXCEPT !.m_pfb_lock_acquired_after_additional_work = @ + 1]
      [] acquired = "after_blocking" ->
             [g EXCEPT !.m_pfb_lock_acquired_after_blocking = @ + 1]
      [] OTHER -> g

\* The framebuffer merges the m_sample_count samples and releases its lock;
\* store_samples counts the acquisition and returns, and generate_samples
\* returns to the loop of execute.
StoreFinish(g) ==
    /\ job[g].pc = "storing"
    /\ fb' = MergeAndRelease(fb, StoredSamples(gen[g]))
    /\ gen' = [gen EXCEPT ![g] = CountAcquisition(gen[g], job[g].acquired)]
    /\ job' = [job EXCEPT ![g].pc = "reserve", ![g].acquired = "none"]
    /\ UNCHANGED <<contention, counter, granted, cntVars, unitVars, seqVars, texVars>>

JobStep(g) ==
    \/ JobReserve(g)
    \/ GenerateSamples(g)
    \/ TryStoreFirst(g)
    \/ AdditionalWork(g)
    \/ TryStoreAgain(g)
    \/ BlockingStore(g)
    \/ StoreFinish(g)

Next == \E g \in Generators : JobStep(g)

Spec == Init /\ [][Next]_vars

\* Every job thread of the pool keeps being scheduled.
FairSpec == Spec /\ \A g \in Generators : WF_vars(JobStep(g))

AllDone == \A g \in Generators : job[g].pc = "done"

(***************************************************************************)
(* SpecFail: the benchmark with a sample renderer that can fail.           *)
(* generate_sample, generate_sample_vector, generate_samples,              *)
(* store_samples and execute have no handler, so a failure of              *)
(* render_sample leaves them all and ends the job ("failed"); the other    *)
(* job threads keep running.                                               *)
(***************************************************************************)
AbortedJobs_all(jobs, g) ==
    [h \in DOMAIN jobs |-> [jobs[h] EXCEPT !.pc = "failed"]]

\* The failure leaves execute of job g.
AbortedJobs(jobs, g) == [jobs EXCEPT ![g].pc = "failed"]

\* render_sample fails inside the generate_sample_vector call of
\* generate_samples.
FailInGenerate(g) ==
    /\ job[g].pc = "generate"
    /\ job' = AbortedJobs(job, g)
    /\ UNCHANGED <<contention, counter, gen, fb, granted,
                   cntVars, unitVars, seqVars, texVars>>

\* render_sample fails inside the generate_sample_vector call of the while
\* loop of store_samples, after reserve has granted the additional samples.
FailInAdditional(g) ==
    /\ job[g].pc = "additional"
    /\ MoreAdditionalWork(gen[g].m_sample_count, job[g].max_sample_count)
    /\ ReserveGrant(counter, AdditionalSampleBatchSize) > 0
    /\ counter' = ReserveNext(counter, AdditionalSampleBatchSize)
    /\ granted' = granted + ReserveGrant(counter, AdditionalSampleBatchSize)
    /\ job' = AbortedJobs(job, g)
    /\ UNCHANGED <<contention, gen, fb, cntVars, unitVars, seqVars, texVars>>

EvaluatorFails(g) == FailInGenerate(g) \/ FailInAdditional(g)

NextFail ==
    \/ \E g \in Generators : JobStep(g)
    \/ \E g \in Generators : EvaluatorFails(g)

SpecFail == Init /\ [][NextFail]_vars

\* The job threads keep being scheduled; a failure may or may not happen.
FairSpecFail == SpecFail /\ \A g \in Generators : WF_vars(JobStep(g))

AllEnded == \A g \in Generators : job[g].pc \in {"done", "failed"}

(***************************************************************************)
(* SpecAbort: the benchmark with an external abort signal, which a job     *)
(* looks at where its loop starts a new batch.                             *)
(***************************************************************************)
AbortPoints_midbatch == {"reserve", "try", "block"}

\* Where execute can observe the abort signal.
AbortPoints == {"reserve"}

JobAbort(g) ==
    /\ job[g].pc \in AbortPoints
    /\ job' = [job EXCEPT ![g].pc = "done"]
    /\ UNCHANGED <<contention, counter, gen, fb, granted,
                   cntVars, unitVars, seqVars, texVars>>

NextAbort ==
    \/ \E g \in Generators : JobStep(g)
    \/ \E g \in Generators : JobAbort(g)

SpecAbort == Init /\ [][NextAbort]_vars

(***************************************************************************)
(* TextureStore.  TileSwapper::load and TileSwapper::unload are the        *)
(* source's; the tile cache around them follows the store's contract:      *)
(* get(key) pins on a hit, and on a miss loads the tile under the key's    *)
(* load serialization, inserts the record and pins it; release(key)        *)
(* unpins; evict(key) calls unload on a record of the cache and drops the  *)
(* record when unload succeeds.  Only loads of the same key are            *)
(* serialized; m_memory_size is a plain size_t member, so "+=" and "-="    *)
(* are a read followed by a write.                                         *)
(*                                                                         *)
(* tex_thr[t].pc is the thread's position:                                 *)
(*   "idle"          outside the store                                     *)
(*   "lock"          get, miss: waiting for the key's load serialization   *)
(*   "load"          load, at its first statement                          *)
(*   "load_write"    load, at the write of "m_memory_size += ..."          *)
(*   "peak_write"    load, at the write of "m_peak_memory_size = ..."      *)
(*   "pin"           get, miss: load has returned, the record is in the    *)
(*                   cache                                                 *)
(*   "unload_write"  unload, past the owners test and the assert, at the   *)
(*                   write of "m_memory_size -= ..."                       *)
(***************************************************************************)
\* Threads calling into the store, tile keys, and get calls in one run.
TexThreadCount == 2
TexKeyCount == 2
MaxGets == 2

TexThreads == 1 .. TexThreadCount
TexKeys == 1 .. TexKeyCount

\* record.m_tile->get_memory_size(): tiles of different keys differ in size.
TileMemorySize(key) == key

NewTileRecord == [in_cache |-> FALSE, m_tile |-> FALSE, m_owners |-> 0]

\* TileSwapper::TileSwapper.
NewTileSwapper == [m_memory_size |-> 0, m_peak_memory_size |-> 0]

NewTexThread ==
    [pc |-> "idle", key |-> 0, held |-> [k \in TexKeys |-> 0], read |-> 0]

TexInit ==
    /\ tex_tile = [k \in TexKeys |-> NewTileRecord]
    /\ tex_mem = NewTileSwapper
    /\ tex_lock = [k \in TexKeys |-> {}]
    /\ tex_thr = [t \in TexThreads |-> NewTexThread]
    /\ tex_aux = [loads |-> [k \in TexKeys |-> 0], gets |-> 0,
                  assert_failed |-> FALSE]
    /\ IdleCnt
    /\ IdleSeq
    /\ IdleGen
    /\ IdleUnit

\* A failed assert aborts the process.
TexRunning == tex_aux.assert_failed = FALSE

\* atomic increment / decrement of record.m_owners.
Pinned(record) == [record EXCEPT !.m_owners = @ + 1]

Unpinned(record) == [record EXCEPT !.m_owners = @ - 1]

\* get returns: the thread holds one more pin on the key.
Holding(thread, key) ==
    [thread EXCEPT !.pc = "idle", !.key = 0, !.held[key] = @ + 1]

KeyLockFree_always(key) == TRUE

KeyLockFree_global(key) == \A k \in TexKeys : tex_lock[k] = {}

\* The key's load serialization admits one thread at a time.
KeyLockFree(key) == tex_lock[key] = {}

\* get(key): a hit pins the record; a miss queues for the key's load
\* serialization.
TexGet(t, key) ==
    /\ TexRunning
    /\ tex_thr[t].pc = "idle"
    /\ tex_aux.gets < MaxGets
    /\ tex_aux' = [tex_aux EXCEPT !.gets = @ + 1]
    /\ IF tex_tile[key].in_cache
       THEN /\ tex_tile' = [tex_tile EXCEPT ![key] = Pinned(@)]
            /\ tex_thr' = [tex_thr EXCEPT ![t] = Holding(@, key)]
       ELSE /\ tex_tile' = tex_tile
            /\ tex_thr' = [tex_thr EXCEPT ![t].pc = "lock", ![t].key = key]
    /\ UNCHANGED <<tex_mem, tex_lock, cntVars, unitVars, seqVars, genVars>>

\* get(key), miss: with the key's load serialization held, look the key up
\* again: pin the record another thread has loaded meanwhile, or load it.
TexLockKey(t) ==
    LET key == tex_thr[t].key
    IN  /\ TexRunning
        /\ tex_thr[t].pc = "lock"
        /\ KeyLockFree(key)
        /\ IF tex_tile[key].in_cache
           THEN /\ tex_tile' = [tex_tile EXCEPT ![key] = Pinned(@)]
                /\ tex_thr' = [tex_thr EXCEPT ![t] = Holding(@, key)]
                /\ tex_lock' = tex_lock
           ELSE /\ tex_tile' = tex_tile
                /\ tex_thr' = [tex_thr EXCEPT ![t].pc = "load"]
                /\ tex_lock' = [tex_lock EXCEPT ![key] = tex_lock[key] \cup {t}]
        /\ UNCHANGED <<tex_mem, tex_aux, cntVars, unitVars, seqVars, genVars>>

\* load: "record.m_tile = texture->load_tile(...); record.m_owners = 0;".
LoadedRecord(record) == [record EXCEPT !.m_tile = TRUE, !.m_owners = 0]

\* load, from its start to the read of
\* "m_memory_size += record.m_tile->get_memory_size();".
LoadTile(t) ==
    LET key == tex_thr[t].key
    IN  /\ TexRunning
        /\ tex_thr[t].pc = "load"
        /\ tex_tile' = [tex_tile EXCEPT ![key] = LoadedRecord(@)]
        /\ tex_thr' = [tex_thr EXCEPT ![t].pc = "load_write",
                                      ![t].read = tex_mem.m_memory_size]
        /\ tex_aux' = [tex_aux EXCEPT !.loads[key] = @ + 1]
        /\ UNCHANGED <<tex_mem, tex_lock, cntVars, unitVars, seqVars, genVars>>

\* load: what "+=" stores.
MemoryAfterLoad(mem, read, tile_memory_size) ==
    [mem EXCEPT !.m_memory_size = read + tile_memory_size]

\* load: the value of "max(m_peak_memory_size, m_memory_size)".
PeakAfterLoad(mem) == Max(mem.m_peak_memory_size, mem.m_memory_size)

\* load: the write of "m_memory_size += ...", then the evaluation of
\* "max(m_peak_memory_size, m_memory_size)"; m_peak_memory_size is a plain
\* size_t member too, so its assignment is a later write.
LoadWrite(t) ==
    LET key == tex_thr[t].key
        mem == MemoryAfterLoad(tex_mem, tex_thr[t].read, TileMemorySize(key))
    IN  /\ TexRunning
        /\ tex_thr[t].pc = "load_write"
        /\ tex_mem' = mem
        /\ tex_thr' = [tex_thr EXCEPT ![t].pc = "peak_write",
                                      ![t].read = PeakAfterLoad(mem)]
        /\ UNCHANGED <<tex_tile, tex_lock, tex_aux, cntVars, unitVars, seqVars, genVars>>

\* load, from the write of "m_peak_memory_size = ..." to its return; the
\* cache then holds the record.
PeakWrite(t) ==
    LET key == tex_thr[t].key
    IN  /\ TexRunning
        /\ tex_thr[t].pc = "peak_write"
        /\ tex_mem' = [tex_mem EXCEPT !.m_peak_memory_size = tex_thr[t].read]
        /\ tex_tile' = [tex_tile EXCEPT ![key].in_cache = TRUE]
        /\ tex_thr' = [tex_thr EXCEPT ![t].pc = "pin", ![t].read = 0]
        /\ UNCHANGED <<tex_lock, tex_aux, cntVars, unitVars, seqVars, genVars>>

\* get(key), miss: the record is pinned for the caller and returned.
PinTile(t) ==
    LET key == tex_thr[t].key
    IN  /\ TexRunning
        /\ tex_thr[t].pc = "pin"
        /\ tex_tile' = [tex_tile EXCEPT ![key] = Pinned(@)]
        /\ tex_thr' = [tex_thr EXCEPT ![t] = Holding(@, key)]
        /\ tex_lock' = [tex_lock EXCEPT ![key] = tex_lock[key] \ {t}]
        /\ UNCHANGED <<tex_mem, tex_aux, cntVars, unitVars, seqVars, genVars>>

\* release(key).
TexRelease(t, key) ==
    /\ TexRunning
    /\ tex_thr[t].pc = "idle"
    /\ tex_thr[t].held[key] > 0
    /\ tex_tile' = [tex_tile EXCEPT ![key] = Unpinned(@)]
    /\ tex_thr' = [tex_thr EXCEPT ![t].held[key] = @ - 1]
    /\ UNCHANGED <<tex_mem, tex_lock, tex_aux, cntVars, unitVars, seqVars, genVars>>

StillInUse_shared(record) == record.m_owners > 1

\* unload: "if (atomic_read(&record.m_owners) > 0) return false;".
StillInUse(record) == record.m_owners > 0

\* unload: "assert(m_memory_size >= tile_memory_size);".
UnloadAssert(memory_size, tile_memory_size) == memory_size >= tile_memory_size

\* evict(key): unload is called on a record of the cache; its owners test
\* ("return false"), its assert and the read of
\* "m_memory_size -= tile_memory_size;".
TexEvict(t, key) ==
    /\ TexRunning
    /\ tex_thr[t].pc = "idle"
    /\ tex_tile[key].in_cache
    /\ IF StillInUse(tex_tile[key])
       THEN UNCHANGED <<tex_thr, tex_aux>>
       ELSE IF UnloadAssert(tex_mem.m_memory_size, TileMemorySize(key))
            THEN /\ tex_thr' = [tex_thr EXCEPT
                        ![t].pc = "unload_write",
                        ![t].key = key,
                        ![t].read = tex_mem.m_memory_size]
                 /\ tex_aux' = tex_aux
            ELSE /\ tex_thr' = tex_thr
                 /\ tex_aux' = [tex_aux EXCEPT !.assert_failed = TRUE]
    /\ UNCHANGED <<tex_tile, tex_mem, tex_lock, cntVars, unitVars, seqVars, genVars>>

\* unload: what "-=" stores.
MemoryAfterUnload(mem, read, tile_memory_size) ==
    [mem EXCEPT !.m_memory_size = read - tile_memory_size]

\* unload, from the write of "m_memory_size -= ..." through
\* "texture->unload_tile(...)" to "return true"; the cache drops the record.
UnloadTile(t) ==
    LET key == tex_thr[t].key
    IN  /\ TexRunning
        /\ tex_thr[t].pc = "unload_write"
        /\ tex_mem' = MemoryAfterUnload(tex_mem, tex_thr[t].read,
                                        TileMemorySize(key))
        /\ tex_tile' = [tex_tile EXCEPT ![key].m_tile = FALSE,
                                        ![key].in_cache = FALSE]
        /\ tex_thr' = [tex_thr EXCEPT ![t].pc = "idle", ![t].key = 0,
                                      ![t].read = 0]
        /\ tex_aux' = [tex_aux EXCEPT !.loads[key] = 0]
        /\ UNCHANGED <<tex_lock, cntVars, unitVars, seqVars, genVars>>

TexStep(t) ==
    \/ \E key \in DOMAIN tex_tile : TexGet(t, key)
    \/ TexLockKey(t)
    \/ LoadTile(t)
    \/ LoadWrite(t)
    \/ PeakWrite(t)
    \/ PinTile(t)
    \/ \E key \in DOMAIN tex_tile : TexRelease(t, key)
    \/ \E key \in DOMAIN tex_tile : TexEvict(t, key)
    \/ UnloadTile(t)

TexNext == \E t \in TexThreads : TexStep(t)

SpecTex == TexInit /\ [][TexNext]_vars

(***************************************************************************)
(* SpecAll: the generators and the texture store together.  The sample     *)
(* renderer called by generate_sample fetches tiles from the texture store *)
(* while it evaluates a sample: job thread g, while it is in               *)
(* generate_samples before the store or in the overflow loop of            *)
(* store_samples, may call get, release and the cache's eviction; it goes  *)
(* on with the generator's code once it is out of the store and has        *)
(* released its tiles.                                                     *)
(***************************************************************************)
\* Budget of the shared counter in SpecAll, and the tile keys the sample
\* renderers ask for.
AllSampleCount == 3
AllKeyCount == 1

AllKeys == 1 .. AllKeyCount

InitAll ==
    /\ contention \in BOOLEAN
    /\ counter = NewCounter(AllSampleCount)
    /\ gen = [g \in Generators |-> NewGenerator(g, ThreadCount)]
    /\ job = [g \in Generators |-> NewJob]
    /\ fb = NewFrameBuffer
    /\ granted = 0
    /\ tex_tile = [k \in AllKeys |-> NewTileRecord]
    /\ tex_mem = NewTileSwapper
    /\ tex_lock = [k \in AllKeys |-> {}]
    /\ tex_thr = [g \in Generators |-> NewTexThread]
    /\ tex_aux = [loads |-> [k \in AllKeys |-> 0], gets |-> 0,
                  assert_failed |-> FALSE]
    /\ IdleCnt
    /\ IdleSeq
    /\ IdleUnit

Evaluating_locked(g) == job[g].pc \in {"generate", "additional", "storing"}

\* Job thread g is where samples are evaluated.
Evaluating(g) == job[g].pc \in {"generate", "additional"}

\* Job thread g is outside the texture store and holds no tile.
OutOfStore(g) ==
    /\ tex_thr[g].pc = "idle"
    /\ \A k \in TexKeys : tex_thr[g].held[k] = 0

AllTexStep(g) == Evaluating(g) /\ TexStep(g)

AllJobStep(g) == OutOfStore(g) /\ JobStep(g)

NextAll ==
    \/ \E g \in Generators : AllJobStep(g)
    \/ \E g \in Generators : AllTexStep(g)

SpecAll == InitAll /\ [][NextAll]_vars

(***************************************************************************)
(* Color space conversion of a tile (convert_tile_srgb_to_linear_rgb,      *)
(* convert_tile_ciexyz_to_linear_rgb).  A channel value is a float of the  *)
(* source, held in thousandths; a pixel is the sequence of its channels    *)
(* and a tile is [present, channel_count, pixels], present = FALSE being   *)
(* the null Tile pointer.                                                  *)
(***************************************************************************)
\* Positive reals as <<m, e>>, standing for m * 2^e with 2^14 <= m < 2^15;
\* every operation rounds down.
RECURSIVE FloatNormalize(_, _, _)
FloatNormalize(n, d, k) ==
    IF (n * 2^k) \div d >= 2^14
    THEN <<(n * 2^k) \div d, 0 - k>>
    ELSE FloatNormalize(n, d, k + 1)

FloatOf(n, d) == FloatNormalize(n, d, 0)

FloatMul(a, b) ==
    LET p == a[1] * b[1]
    IN  IF p >= 2^29 THEN <<p \div 2^15, a[2] + b[2] + 15>>
                     ELSE <<p \div 2^14, a[2] + b[2] + 14>>

FloatLeq(a, b) == a[2] < b[2] \/ (a[2] = b[2] /\ a[1] <= b[1])

RECURSIVE FloatPow(_, _)
FloatPow(a, n) == IF n = 1 THEN a ELSE FloatMul(a, FloatPow(a, n - 1))

\* The largest t in lo .. hi with (t / 1000)^5 <= y (lo is known to be one).
RECURSIVE FifthRoot(_, _, _)
FifthRoot(y, lo, hi) ==
    IF lo = hi THEN lo
    ELSE LET mid == (lo + hi + 1) \div 2
         IN  IF FloatLeq(FloatPow(FloatOf(mid, 1000), 5), y)
             THEN FifthRoot(y, mid, hi)
             ELSE FifthRoot(y, lo, mid - 1)

\* The sRGB decoding of one channel value c (thousandths):
\* c / 12.92 up to 0.04045, ((c + 0.055) / 1.055)^2.4 above.
srgb_decode_gamma22(c) ==
    IF c * 100 <= 4045 THEN (c * 100) \div 1292
    ELSE FifthRoot(FloatPow(FloatOf(c + 55, 1055), 11), 0, 1000)

srgb_decode(c) ==
    IF c * 100 <= 4045 THEN (c * 100) \div 1292
    ELSE FifthRoot(FloatPow(FloatOf(c + 55, 1055), 12), 0, 1000)

\* The channel values the source tiles are made of: 0.0, 0.5 and 1.0.
EncodedValues == <<0, 500, 1000>>

SrgbDecoded == [v \in Range(EncodedValues) |-> srgb_decode(v)]

\* srgb_to_linear_rgb(Color3f): each of the three channels decoded.
srgb_to_linear_rgb(color) ==
    [c \in DOMAIN color |->
        IF color[c] \in DOMAIN SrgbDecoded
        THEN SrgbDecoded[color[c]]
        ELSE srgb_decode(color[c])]

\* ciexyz_to_linear_rgb(Color3f): the XYZ to linear RGB matrix, coefficients
\* in ten-thousandths.
ciexyz_to_linear_rgb(color) ==
    <<(32405 * color[1] - 15372 * color[2] - 4985 * color[3]) \div 10000,
      (0 - 9693 * color[1] + 18760 * color[2] + 416 * color[3]) \div 10000,
      (556 * color[1] - 2040 * color[2] + 10573 * color[3]) \div 10000>>

\* The body of the pixel loop of convert_tile_srgb_to_linear_rgb: a pixel of
\* three channels is converted whole (Color3f), any other is read as a
\* Color4f whose rgb() part is converted in place.
convert_pixel_srgb_all_channels(channel_count, pixel) ==
    srgb_to_linear_rgb(pixel)

convert_pixel_srgb_to_linear_rgb(channel_count, pixel) ==
    IF channel_count = 3
    THEN srgb_to_linear_rgb(pixel)
    ELSE srgb_to_linear_rgb(SubSeq(pixel, 1, 3)) \o SubSeq(pixel, 4, Len(pixel))

\* The same loop body in convert_tile_ciexyz_to_linear_rgb.
convert_pixel_ciexyz_to_linear_rgb(channel_count, pixel) ==
    IF channel_count = 3
    THEN ciexyz_to_linear_rgb(pixel)
    ELSE ciexyz_to_linear_rgb(SubSeq(pixel, 1, 3)) \o SubSeq(pixel, 4, Len(pixel))

convert_tile_srgb_to_linear_rgb(tile) ==
    [tile EXCEPT !.pixels =
        [i \in DOMAIN tile.pixels |->
            convert_pixel_srgb_to_linear_rgb(tile.channel_count, tile.pixels[i])]]

convert_tile_ciexyz_to_linear_rgb(tile) ==
    [tile EXCEPT !.pixels =
        [i \in DOMAIN tile.pixels |->
            convert_pixel_ciexyz_to_linear_rgb(tile.channel_count, tile.pixels[i])]]

(***************************************************************************)
(* SpecLoad: one thread drives a TileSwapper with one texture and one tile *)
(* key: load (step by step), unload and get_statistics.  The texture, the  *)
(* parameters of the store and the build (asserts compiled in or out) are  *)
(* chosen at the start.                                                    *)
(***************************************************************************)
\* Pixels of a tile.
TilePixelCount == 1
\* Largest "max_size" of the store's parameters, in units of one channel.
MaxMemoryLimit == 4

\* texture->get_color_space(); "ColorSpaceOther" is any value of the tag
\* that is none of the three enumerators.
KnownColorSpaces == {"ColorSpaceLinearRGB", "ColorSpaceSRGB", "ColorSpaceCIEXYZ"}
ColorSpaces == KnownColorSpaces \cup {"ColorSpaceOther"}

NullTile == [present |-> FALSE, channel_count |-> 0, pixels |-> <<>>]

SourcePixels(channel_count) ==
    {[c \in 1 .. channel_count |-> EncodedValues[((s + c) % 3) + 1]] : s \in 0 .. 2}

\* What texture->load_tile can return: a tile of 3 or 4 channels, or null.
SourceTiles ==
    {NullTile} \cup
    UNION {{[present |-> TRUE, channel_count |-> n, pixels |-> p] :
                p \in [1 .. TilePixelCount -> SourcePixels(n)]} : n \in {3, 4}}

\* Tile::get_memory_size().
TileBytes(tile) == Len(tile.pixels) * tile.channel_count

\* TextureStore::Parameters::Parameters.
StoreParameters ==
    [m_memory_limit : 1 .. MaxMemoryLimit,
     m_track_tile_loading : BOOLEAN,
     m_track_tile_unloading : BOOLEAN,
     m_track_store_size : BOOLEAN]

NewLoadUnit(params, ndebug, color_space, source) ==
    [params      |-> params,
     ndebug      |-> ndebug,
     color_space |-> color_space,
     source      |-> source,
     pc          |-> "idle",
     record      |-> [m_tile |-> NullTile, m_owners |-> 0],
     resident    |-> FALSE,
     swapper     |-> NewTileSwapper,
     log         |-> {},
     stats       |-> [reported |-> FALSE, peak_size |-> 0]]

LoadInit ==
    /\ \E params \in StoreParameters, ndebug \in BOOLEAN,
          color_space \in ColorSpaces, source \in SourceTiles :
          ld = <<NewLoadUnit(params, ndebug, color_space, source)>>
    /\ IdleCnt
    /\ IdleSeq
    /\ IdleGen
    /\ IdleTex
    /\ IdleCoord
    /\ IdleParams
    /\ IdleScene

\* RENDERER_LOG_DEBUG under one of the tracking parameters.
Logged(u, enabled, message) ==
    IF enabled THEN u.log \cup {message} ELSE u.log

\* What a use of a null Tile pointer can lead to: the process dies where it
\* stands, or the call goes on with whatever it read.
UndefinedOutcomes ==
    [resident : BOOLEAN,
     swapper : [m_memory_size : 0 .. MaxMemoryLimit,
                m_peak_memory_size : 0 .. MaxMemoryLimit]]

Undefined(u, outcome) ==
    [u EXCEPT !.pc = "undefined",
              !.resident = outcome.resident,
              !.swapper = outcome.swapper]

\* load, from its start through "record.m_tile = texture->load_tile(...);
\* record.m_owners = 0;".
FetchResult(u) ==
    [u EXCEPT
        !.log = Logged(u, u.params.m_track_tile_loading, "loading tile"),
        !.record = [m_tile |-> u.source, m_owners |-> 0],
        !.pc = "convert"]

LoadFetch(i) ==
    /\ ld[i].pc = "idle"
    /\ ~ld[i].resident
    /\ ld' = [ld EXCEPT ![i] = FetchResult(ld[i])]
    /\ UNCHANGED <<co, pa, sc, cntVars, seqVars, genVars, texVars>>

\* load: "switch (texture->get_color_space())".  assert_otherwise is an
\* assert: it stops a build with asserts and is nothing in a build without.
ConvertedTile(color_space, tile) ==
    CASE color_space = "ColorSpaceSRGB" -> convert_tile_srgb_to_linear_rgb(tile)
      [] color_space = "ColorSpaceCIEXYZ" -> convert_tile_ciexyz_to_linear_rgb(tile)
      [] OTHER -> tile

\* "*record.m_tile" of a null pointer handed to convert_tile_*.
ConvertUndefined(u) ==
    /\ u.color_space \in {"ColorSpaceSRGB", "ColorSpaceCIEXYZ"}
    /\ ~u.record.m_tile.present

ConvertResult(u) ==
    IF u.color_space \notin KnownColorSpaces /\ ~u.ndebug
    THEN [u EXCEPT !.pc = "aborted"]
    ELSE [u EXCEPT !.record.m_tile = ConvertedTile(u.color_space, @),
                   !.pc = "account"]

LoadConvert(i) ==
    /\ ld[i].pc = "convert"
    /\ IF ConvertUndefined(ld[i])
       THEN \E outcome \in UndefinedOutcomes :
                ld' = [ld EXCEPT ![i] = Undefined(ld[i], outcome)]
       ELSE ld' = [ld EXCEPT ![i] = ConvertResult(ld[i])]
    /\ UNCHANGED <<co, pa, sc, cntVars, seqVars, genVars, texVars>>

\* load: the message under m_track_store_size.
StoreSizeMessage(swapper, params) ==
    IF swapper.m_memory_size > params.m_memory_limit
    THEN "above capacity" ELSE "below capacity"

\* "record.m_tile->get_memory_size()" of a null pointer.
AccountUndefined(u) == ~u.record.m_tile.present

\* load, from "m_memory_size += record.m_tile->get_memory_size();" to its
\* return; the cache then holds the record.
AccountResult_tracked(u) ==
    LET mem == MemoryAfterLoad(u.swapper, u.swapper.m_memory_size,
                               TileBytes(u.record.m_tile))
        swapper == [mem EXCEPT !.m_peak_memory_size = PeakAfterLoad(mem)]
    IN  [u EXCEPT
            !.swapper = IF u.params.m_track_store_size THEN swapper ELSE @,
            !.log = Logged(u, u.params.m_track_store_size,
                           StoreSizeMessage(swapper, u.params)),
            !.resident = TRUE,
            !.pc = "idle"]

AccountResult(u) ==
    LET mem == MemoryAfterLoad(u.swapper, u.swapper.m_memory_size,
                               TileBytes(u.record.m_tile))
        swapper == [mem EXCEPT !.m_peak_memory_size = PeakAfterLoad(mem)]
    IN  [u EXCEPT
            !.swapper = swapper,
            !.log = Logged(u, u.params.m_track_store_size,
                           StoreSizeMessage(swapper, u.params)),
            !.resident = TRUE,
            !.pc = "idle"]

LoadAccount(i) ==
    /\ ld[i].pc = "account"
    /\ IF AccountUndefined(ld[i])
       THEN \E outcome \in UndefinedOutcomes :
                ld' = [ld EXCEPT ![i] = Undefined(ld[i], outcome)]
       ELSE ld' = [ld EXCEPT ![i] = AccountResult(ld[i])]
    /\ UNCHANGED <<co, pa, sc, cntVars, seqVars, genVars, texVars>>

\* unload of the resident record, whole; the cache drops the record when it
\* returns true.
UnloadResult(u) ==
    LET size == TileBytes(u.record.m_tile)
    IN  IF StillInUse(u.record) THEN u
        ELSE IF ~u.ndebug /\ ~UnloadAssert(u.swapper.m_memory_size, size)
        THEN [u EXCEPT !.pc = "aborted"]
        ELSE [u EXCEPT
                !.swapper = MemoryAfterUnload(u.swapper, u.swapper.m_memory_size, size),
                !.log = Logged(u, u.params.m_track_tile_unloading, "unloading tile"),
                !.record = [m_tile |-> NullTile, m_owners |-> 0],
                !.resident = FALSE]

UnitUnload(i) ==
    /\ ld[i].pc = "idle"
    /\ ld[i].resident
    /\ ld' = [ld EXCEPT ![i] = UnloadResult(ld[i])]
    /\ UNCHANGED <<co, pa, sc, cntVars, seqVars, genVars, texVars>>

\* TextureStore::get_statistics: "peak size" of the report.
ReportedPeak_current(swapper) == swapper.m_memory_size

ReportedPeak(swapper) == swapper.m_peak_memory_size

StatisticsResult(u) ==
    [u EXCEPT !.stats = [reported |-> TRUE, peak_size |-> ReportedPeak(u.swapper)]]

GetStatistics(i) ==
    /\ ld[i].pc = "idle"
    /\ ld' = [ld EXCEPT ![i] = StatisticsResult(ld[i])]
    /\ UNCHANGED <<co, pa, sc, cntVars, seqVars, genVars, texVars>>

LoadStep(i) ==
    \/ LoadFetch(i)
    \/ LoadConvert(i)
    \/ LoadAccount(i)
    \/ UnitUnload(i)
    \/ GetStatistics(i)

LoadNext == \E i \in DOMAIN ld : LoadStep(i)

SpecLoad == LoadInit /\ [][LoadNext]_vars

(***************************************************************************)
(* SpecCoord: generate_sample's coordinates.  Two generators, constructed  *)
(* with unrelated (generator_index, generator_count), each evaluate        *)
(* samples one at a time; every sample is kept with the sequence index it  *)
(* was computed from.                                                      *)
(***************************************************************************)
\* The radical inverse of index in the given base, as <<numerator,
\* denominator>>.
RECURSIVE radical_inverse(_, _)
radical_inverse(base, index) ==
    IF index = 0 THEN <<0, 1>>
    ELSE LET r == radical_inverse(base, index \div base)
         IN  <<(index % base) * r[2] + r[1], base * r[2]>>

\* halton_sequence<double, 2>(bases, index).
halton_sequence(bases, index) ==
    <<radical_inverse(bases[1], index), radical_inverse(bases[2], index)>>

\* generate_sample: "const size_t Bases[2] = { 2, 3 };".
Bases == <<2, 3>>

\* generate_sample: "s = halton_sequence<double, 2>(Bases, m_sequence_index)".
SampleCoordinates_strided(g) ==
    halton_sequence(Bases, g.m_sequence_index + g.m_stride)

SampleCoordinates(g) == halton_sequence(Bases, g.m_sequence_index)

SamplingContextSeed_batch(g) == g.m_current_batch_size

\* generate_sample: the initial instance number of the sampling context,
\* "SamplingContext sampling_context(m_rng, 2, 0, m_sequence_index)".
SamplingContextSeed(g) == g.m_sequence_index

CoordInit ==
    /\ \E n1, n2 \in 1 .. MaxGenerators :
          \E i1 \in 0 .. n1 - 1, i2 \in 0 .. n2 - 1 :
              co = <<[gen |-> NewGenerator(i1, n1), made |-> <<>>],
                     [gen |-> NewGenerator(i2, n2), made |-> <<>>]>>
    /\ IdleCnt
    /\ IdleSeq
    /\ IdleGen
    /\ IdleTex
    /\ IdleLoad
    /\ IdleParams
    /\ IdleScene

\* One iteration of generate_sample_vector.
CoordResult(c) ==
    [c EXCEPT
        !.made = Append(@, [index |-> GenerateSample(c.gen),
                            s     |-> SampleCoordinates(c.gen),
                            seed  |-> SamplingContextSeed(c.gen)]),
        !.gen = GenerateOne(c.gen, 0)]

CoordGenerate(k) ==
    /\ Len(co[k].made) < MaxSeqSamples
    /\ co' = [co EXCEPT ![k] = CoordResult(co[k])]
    /\ UNCHANGED <<ld, pa, sc, cntVars, seqVars, genVars, texVars>>

CoordNext == \E k \in DOMAIN co : CoordGenerate(k)

SpecCoord == CoordInit /\ [][CoordNext]_vars

(***************************************************************************)
(* SpecDiag: two runs of the same operations that differ in the            *)
(* diagnostic parameters only.  Either two tile swappers with the same     *)
(* texture, build and "max_size" go through the same load, unload and      *)
(* get_statistics steps, or two generators constructed with the same       *)
(* (generator_index, generator_count) evaluate the same number of samples  *)
(* and are destroyed.  Run 1 has every diagnostic off, run 2 any           *)
(* combination; where a step's behaviour is undefined both runs take the   *)
(* same outcome.                                                           *)
(***************************************************************************)
UnitOps == {"fetch", "convert", "account", "unload", "get_statistics"}

OpEnabled(op, u) ==
    CASE op = "fetch" -> u.pc = "idle" /\ ~u.resident
      [] op = "convert" -> u.pc = "convert"
      [] op = "account" -> u.pc = "account"
      [] op = "unload" -> u.pc = "idle" /\ u.resident
      [] op = "get_statistics" -> u.pc = "idle"

OpUndefined(op, u) ==
    \/ op = "convert" /\ ConvertUndefined(u)
    \/ op = "account" /\ AccountUndefined(u)

OpResult(op, u, outcome) ==
    IF OpUndefined(op, u) THEN Undefined(u, outcome)
    ELSE CASE op = "fetch" -> FetchResult(u)
           [] op = "convert" -> ConvertResult(u)
           [] op = "account" -> AccountResult(u)
           [] op = "unload" -> UnloadResult(u)
           [] op = "get_statistics" -> StatisticsResult(u)

Quiet(params) ==
    [params EXCEPT !.m_track_tile_loading = FALSE,
                   !.m_track_tile_unloading = FALSE,
                   !.m_track_store_size = FALSE]

\* SampleGenerator::SampleGenerator with its enable_logging argument.
NewLoggedGenerator(generator_index, generator_count, enable_logging) ==
    [gen |-> NewGenerator(generator_index, generator_count),
     made |-> <<>>,
     m_enable_logging |-> enable_logging,
     log |-> {},
     alive |-> TRUE]

DiagInit ==
    /\ \/ /\ \E params \in StoreParameters, ndebug \in BOOLEAN,
                color_space \in ColorSpaces, source \in SourceTiles :
                ld = <<NewLoadUnit(Quiet(params), ndebug, color_space, source),
                       NewLoadUnit(params, ndebug, color_space, source)>>
          /\ co = <<>>
       \/ /\ ld = <<>>
          /\ \E n \in 1 .. MaxGenerators : \E i \in 0 .. n - 1 :
                \E enable_logging \in BOOLEAN :
                    co = <<NewLoggedGenerator(i, n, FALSE),
                           NewLoggedGenerator(i, n, enable_logging)>>
    /\ IdleCnt
    /\ IdleSeq
    /\ IdleGen
    /\ IdleTex
    /\ IdleParams
    /\ IdleScene

\* Both swappers take the same step.
DiagStore(op) ==
    /\ ld # <<>>
    /\ \A k \in DOMAIN ld : OpEnabled(op, ld[k])
    /\ \E outcome \in UndefinedOutcomes :
          /\ (\A k \in DOMAIN ld : ~OpUndefined(op, ld[k])) =>
                outcome = [resident |-> FALSE, swapper |-> NewTileSwapper]
          /\ ld' = [k \in DOMAIN ld |-> OpResult(op, ld[k], outcome)]
    /\ UNCHANGED <<co, pa, sc, cntVars, seqVars, genVars, texVars>>

\* Both generators evaluate one more sample.
DiagGenerate ==
    /\ co # <<>>
    /\ \A k \in DOMAIN co : co[k].alive /\ Len(co[k].made) < MaxSeqSamples
    /\ co' = [k \in DOMAIN co |-> CoordResult(co[k])]
    /\ UNCHANGED <<ld, pa, sc, cntVars, seqVars, genVars, texVars>>

\* SampleGenerator::~SampleGenerator.
DestroyResult(c) ==
    [c EXCEPT !.alive = FALSE,
              !.log = IF c.m_enable_logging
                      THEN @ \cup {"lock acquisition statistics"} ELSE @]

\* Both generators are destroyed.
DiagDestroy ==
    /\ co # <<>>
    /\ \A k \in DOMAIN co : co[k].alive
    /\ co' = [k \in DOMAIN co |-> DestroyResult(co[k])]
    /\ UNCHANGED <<ld, pa, sc, cntVars, seqVars, genVars, texVars>>

DiagNext ==
    \/ \E op \in UnitOps : DiagStore(op)
    \/ DiagGenerate
    \/ DiagDestroy

SpecDiag == DiagInit /\ [][DiagNext]_vars

(***************************************************************************)
(* SpecParams: the max_size parameter.  A ParamArray that may or may not   *)
(* hold each of the store's parameters; the static get_params_metadata is  *)
(* asked for the advertised default, and a TileSwapper's Parameters are    *)
(* constructed from the array, in either order.  pa.pc is "new" before the *)
(* construction, "constructed" after it and "aborted" when its assert      *)
(* stopped the program.                                                    *)
(***************************************************************************)
\* get_params_metadata: "const size_t DefaultTextureStoreSizeMB = 1024;".
DefaultTextureStoreSizeMB == 1024

\* get_params_metadata: the "default" entry of "max_size".
AdvertisedDefaultMaxSize == DefaultTextureStoreSizeMB * 1024 * 1024

\* Parameters: the default handed to get_optional for "max_size".
FallbackMaxSize == 256 * 1024 * 1024

\* An entry of a ParamArray: absent, or present with a value.
Optional(values, none) ==
    {[present |-> FALSE, value |-> none]}
        \cup {[present |-> TRUE, value |-> v] : v \in values}

\* ParamArray::get_optional(name, default).
get_optional(entry, default_value) ==
    IF entry.present THEN entry.value ELSE default_value

ParamArrays ==
    [max_size             : Optional(0 .. MaxMemoryLimit, 0),
     track_tile_loading   : Optional(BOOLEAN, FALSE),
     track_tile_unloading : Optional(BOOLEAN, FALSE),
     track_store_size     : Optional(BOOLEAN, FALSE)]

NoMetadata == [queried |-> FALSE, default |-> 0]

NoParameters ==
    [m_memory_limit         |-> 0,
     m_track_tile_loading   |-> FALSE,
     m_track_tile_unloading |-> FALSE,
     m_track_store_size     |-> FALSE]

ParamsInit ==
    /\ \E params \in ParamArrays, ndebug \in BOOLEAN :
          pa = [params |-> params, ndebug |-> ndebug, pc |-> "new",
                metadata |-> NoMetadata, parameters |-> NoParameters]
    /\ IdleCnt
    /\ IdleSeq
    /\ IdleGen
    /\ IdleTex
    /\ IdleLoad
    /\ IdleCoord
    /\ IdleScene

\* TextureStore::get_params_metadata().
get_params_metadata == [queried |-> TRUE, default |-> AdvertisedDefaultMaxSize]

GetParamsMetadata ==
    /\ ~pa.metadata.queried
    /\ pa' = [pa EXCEPT !.metadata = get_params_metadata]
    /\ UNCHANGED <<ld, co, sc, cntVars, seqVars, genVars, texVars>>

\* TextureStore::TileSwapper::Parameters::Parameters(params), initializers.
Parameters(params) ==
    [m_memory_limit         |-> get_optional(params.max_size, FallbackMaxSize),
     m_track_tile_loading   |-> get_optional(params.track_tile_loading, FALSE),
     m_track_tile_unloading |-> get_optional(params.track_tile_unloading, FALSE),
     m_track_store_size     |-> get_optional(params.track_store_size, FALSE)]

\* Parameters::Parameters: the initializers, then "assert(m_memory_limit >
\* 0);", which stops a build with asserts and is absent from the others.
ConstructParameters ==
    /\ pa.pc = "new"
    /\ LET parameters == Parameters(pa.params)
       IN  pa' = [pa EXCEPT
                     !.parameters = parameters,
                     !.pc = IF parameters.m_memory_limit > 0 \/ pa.ndebug
                            THEN "constructed" ELSE "aborted"]
    /\ UNCHANGED <<ld, co, sc, cntVars, seqVars, genVars, texVars>>

ParamsNext == GetParamsMetadata \/ ConstructParameters

SpecParams == ParamsInit /\ [][ParamsNext]_vars

(***************************************************************************)
(* SpecScene: the texture a tile key resolves to.  A scene with a texture  *)
(* container of its own and a forest of assemblies, nested to any depth,   *)
(* each with its texture container; a tile swapper is constructed on it    *)
(* (gather_assemblies), then loads the tile of one key and unloads it      *)
(* again.  Entities have unique identifiers; a texture is known by the     *)
(* container it is in and its identifier.  sc.pc is "new" before the       *)
(* construction of the swapper, "ready" after it, "loaded" while the tile  *)
(* is resident, "unloaded" after its eviction and "undefined" once a null  *)
(* pointer has been dereferenced.                                          *)
(***************************************************************************)
MaxAssemblies == 3

MaxTileCoordinate == 1

\* "UniqueID(~0)": the scope of the textures of the scene itself.
RootScope == 0 - 1

\* The identifier of the one texture of the container of `owner`.
TextureUidOf(owner) == MaxAssemblies + 2 + owner

NewTextureContainer(owner) ==
    [owner |-> owner, uids |-> {TextureUidOf(owner)}]

\* The scenes: assemblies 1 .. n, each inside the scene itself or inside an
\* assembly of smaller identifier.
Scenes ==
    UNION {
        {[textures   |-> NewTextureContainer(RootScope),
          assemblies |-> [a \in 1 .. n |->
                             [parent   |-> parent[a],
                              textures |-> NewTextureContainer(a)]]] :
            parent \in {p \in [1 .. n -> {RootScope} \cup 1 .. n] :
                           \A a \in 1 .. n : p[a] < a}} :
        n \in 0 .. MaxAssemblies}

\* Scene::assemblies() / Assembly::assemblies(): the assemblies directly
\* inside `parent`.
AssembliesOf(scene, parent) ==
    {a \in DOMAIN scene.assemblies : scene.assemblies[a].parent = parent}

gather_assemblies_toplevel(scene, parent) == AssembliesOf(scene, parent)

\* TileSwapper::gather_assemblies: the identifiers entered into
\* m_assemblies.
RECURSIVE gather_assemblies(_, _)
gather_assemblies(scene, parent) ==
    AssembliesOf(scene, parent)
        \cup UNION {gather_assemblies(scene, a) :
                       a \in AssembliesOf(scene, parent)}

\* The keys of the tiles of the textures of a scene.
TileKeys(scene) ==
    {[m_assembly_uid |-> owner,
      m_texture_uid  |-> TextureUidOf(owner),
      tile_x         |-> x,
      tile_y         |-> y] :
        owner \in {RootScope} \cup DOMAIN scene.assemblies,
        x \in 0 .. MaxTileCoordinate,
        y \in 0 .. MaxTileCoordinate}

NoTexture == [container |-> RootScope, uid |-> 0]

NoTileOf == [texture |-> NoTexture, x |-> 0, y |-> 0]

NoCall == [texture |-> NoTexture, x |-> 0, y |-> 0, tile |-> NoTileOf]

SceneInit ==
    /\ \E scene \in Scenes : \E key \in TileKeys(scene) :
          sc = [scene        |-> scene,
                key          |-> key,
                pc           |-> "new",
                m_assemblies |-> <<>>,
                record       |-> [m_tile |-> NoTileOf, m_owners |-> 0],
                unload_tile  |-> NoCall]
    /\ IdleCnt
    /\ IdleSeq
    /\ IdleGen
    /\ IdleTex
    /\ IdleLoad
    /\ IdleCoord
    /\ IdleParams

\* TileSwapper::TileSwapper: gather_assemblies(scene.assemblies()).
SceneConstruct ==
    /\ sc.pc = "new"
    /\ sc' = [sc EXCEPT
                 !.pc = "ready",
                 !.m_assemblies =
                     [a \in gather_assemblies(sc.scene, RootScope) |->
                         sc.scene.assemblies[a]]]
    /\ UNCHANGED <<ld, co, pa, cntVars, seqVars, genVars, texVars>>

\* The textures of a scene, each with the container it is in.
TextureContainers(scene) ==
    {scene.textures}
        \cup {scene.assemblies[a].textures : a \in DOMAIN scene.assemblies}

AllTextures(scene) ==
    UNION {{[container |-> c.owner, uid |-> u] : u \in c.uids} :
              c \in TextureContainers(scene)}

\* What "textures.get_by_uid(key.m_texture_uid)" yields in load, textures
\* being the scene's container for the root scope and
\* "m_assemblies[key.m_assembly_uid]->textures()" otherwise: the texture,
\* or NoTexture for a null pointer.  An identifier m_assemblies does not
\* hold yields a null assembly, whose textures() is undefined.
LoadTexture(s) ==
    IF s.key.m_assembly_uid = RootScope
    THEN IF s.key.m_texture_uid \in s.scene.textures.uids
         THEN {[container |-> s.scene.textures.owner,
                uid       |-> s.key.m_texture_uid]}
         ELSE {NoTexture}
    ELSE IF s.key.m_assembly_uid \in DOMAIN s.m_assemblies
         THEN LET textures == s.m_assemblies[s.key.m_assembly_uid].textures
              IN  IF s.key.m_texture_uid \in textures.uids
                  THEN {[container |-> textures.owner,
                         uid       |-> s.key.m_texture_uid]}
                  ELSE {NoTexture}
         ELSE AllTextures(s.scene) \cup {NoTexture}

\* The same lookup, as written in unload.
UnloadTexture(s) ==
    IF s.key.m_assembly_uid = RootScope
    THEN IF s.key.m_texture_uid \in s.scene.textures.uids
         THEN {[container |-> s.scene.textures.owner,
                uid       |-> s.key.m_texture_uid]}
         ELSE {NoTexture}
    ELSE IF s.key.m_assembly_uid \in DOMAIN s.m_assemblies
         THEN LET textures == s.m_assemblies[s.key.m_assembly_uid].textures
              IN  IF s.key.m_texture_uid \in textures.uids
                  THEN {[container |-> textures.owner,
                         uid       |-> s.key.m_texture_uid]}
                  ELSE {NoTexture}
         ELSE AllTextures(s.scene) \cup {NoTexture}

\* load: the lookup, then "record.m_tile = texture->load_tile(
\* key.get_tile_x(), key.get_tile_y())" and "record.m_owners = 0".
SceneLoad ==
    /\ sc.pc \in {"ready", "unloaded"}
    /\ \E texture \in LoadTexture(sc) :
          sc' = IF texture = NoTexture
                THEN [sc EXCEPT !.pc = "undefined"]
                ELSE [sc EXCEPT
                         !.pc = "loaded",
                         !.record = [m_tile   |-> [texture |-> texture,
                                                   x |-> sc.key.tile_x,
                                                   y |-> sc.key.tile_y],
                                     m_owners |-> 0],
                         !.unload_tile = NoCall]
    /\ UNCHANGED <<ld, co, pa, cntVars, seqVars, genVars, texVars>>

\* The cache hands the record to a user, or takes it back.
SceneOwners(owners) ==
    /\ sc.pc = "loaded"
    /\ sc.record.m_owners # owners
    /\ sc' = [sc EXCEPT !.record.m_owners = owners]
    /\ UNCHANGED <<ld, co, pa, cntVars, seqVars, genVars, texVars>>

\* unload: refused while the record has owners; otherwise the lookup, then
\* "texture->unload_tile(key.get_tile_x(), key.get_tile_y(), record.m_tile)".
SceneUnload ==
    /\ sc.pc = "loaded"
    /\ sc.record.m_owners = 0
    /\ \E texture \in UnloadTexture(sc) :
          sc' = IF texture = NoTexture
                THEN [sc EXCEPT !.pc = "undefined"]
                ELSE [sc EXCEPT
                         !.pc = "unloaded",
                         !.unload_tile = [texture |-> texture,
                                          x       |-> sc.key.tile_x,
                                          y       |-> sc.key.tile_y,
                                          tile    |-> sc.record.m_tile]]
    /\ UNCHANGED <<ld, co, pa, cntVars, seqVars, genVars, texVars>>

SceneNext ==
    \/ SceneConstruct
    \/ SceneLoad
    \/ \E owners \in 0 .. 1 : SceneOwners(owners)
    \/ SceneUnload

SpecScene == SceneInit /\ [][SceneNext]_vars

(***************************************************************************)
(* Properties.                                                             *)
(***************************************************************************)

\* C1 (Spec).  The grants never sum to more than the budget and always
\* equal the reserved total; once the counter is exhausted they sum to the
\* budget exactly; from then on every reserve returns 0 (the sum no longer
\* moves); and when all jobs have finished, read() is the configured
\* maximum (the benchmark's assertion).
C1_GrantsSumToBudget ==
    /\ [](/\ granted <= counter.max
          /\ granted = CounterRead(counter)
          /\ (Remaining(counter) = 0 => granted = counter.max)
          /\ (AllDone => CounterRead(counter) = MaxSampleCount))
    /\ [][granted = counter.max => granted' = granted]_vars

\* C1 witness: the budget is used up, every job has since been handed a
\* grant of 0 and has left its loop.
C1_Witness ==
    /\ gen # <<>>
    /\ AllDone
    /\ granted = MaxSampleCount
    /\ \A g \in Generators : job[g].sample_count = 0

\* C3 (SpecSeq).  Whenever the G generators have each produced the same
\* number k of full batches, the indices they evaluated are pairwise
\* distinct and are exactly 0 .. G*k*B - 1.
SeqAll == UNION {Range(seq_made[i]) : i \in DOMAIN seq_made}

SeqDistinct ==
    /\ \A i \in DOMAIN seq_made :
          Cardinality(Range(seq_made[i])) = Len(seq_made[i])
    /\ \A i, j \in DOMAIN seq_made :
          i # j => Range(seq_made[i]) \cap Range(seq_made[j]) = {}

SeqFullBatches(k) ==
    \A i \in DOMAIN seq_made : Len(seq_made[i]) = k * SampleBatchSize

C3_InterleavedUnionContiguous ==
    \A k \in 0 .. MaxSeqSamples :
        SeqFullBatches(k) =>
            /\ SeqDistinct
            /\ SeqAll = 0 .. seq_count * k * SampleBatchSize - 1

\* C3 witness: at least two generators, two full batches each.
C3_Witness ==
    /\ seq_count >= 2
    /\ SeqFullBatches(2)

\* C4 (Spec).  When every job thread has finished, the framebuffer has
\* received exactly as many samples as the counter's initial budget, in the
\* blocking-only build and in the build with the contention path.
C4_TargetReceivesBudget ==
    AllDone => fb.count = MaxSampleCount

\* C4 witness: a finished run of the build with the contention path in
\* which additional samples were generated while waiting.
C4_Witness ==
    /\ gen # <<>>
    /\ AllDone
    /\ contention
    /\ \E g \in Generators : gen[g].m_additional_sample_count > 0
    /\ \E g \in Generators : gen[g].m_additional_sample_count = 0

\* C8 (FairSpec).  Within one store_samples call the non-blocking try is
\* attempted at most once plus once per additional batch, the additional
\* samples number at most AdditionalSampleCount, and the call ends with
\* the samples merged (the thread is back at the loop of execute).
InStore(g) == job[g].pc \in {"try", "additional", "retry", "block", "storing"}

C8_StoreSamplesTerminates ==
    /\ [](\A g \in DOMAIN job :
             /\ job[g].tries <= job[g].batches + 1
             /\ InStore(g) =>
                   gen[g].m_sample_count
                       <= job[g].sample_count + AdditionalSampleCount)
    /\ \A g \in Generators : (InStore(g) ~> job[g].pc = "reserve")

\* C8 witness: a store_samples call has returned after as many tries as
\* the cap on the additional work allows.
C8_Witness ==
    \E g \in DOMAIN job :
        /\ job[g].pc = "reserve"
        /\ job[g].tries = 1 + AdditionalSampleBatchSize
        /\ gen[g].m_sample_count = job[g].sample_count + AdditionalSampleCount

\* C9 (FairSpec).  Every job eventually leaves its loop for good, and a job
\* that has left generates and commits nothing more.
C9_JobsTerminate ==
    /\ <>[]AllDone
    /\ [][\A g \in DOMAIN job :
             job[g].pc = "done" => (job'[g] = job[g] /\ gen'[g] = gen[g])]_vars

\* C9 witness: all jobs are done after at least one of them committed.
C9_Witness ==
    /\ gen # <<>>
    /\ AllDone
    /\ fb.count > 0
    /\ fb.lock = {}

C2_PinnedTileNeverUnloaded ==
    [][\A k \in DOMAIN tex_tile :
          (tex_tile[k].m_tile /\ ~tex_tile'[k].m_tile)
              => tex_tile[k].m_owners = 0]_vars

\* C5 (SpecTex).  The assert of unload never fails; the write of a
\* successful unload leaves m_memory_size exactly the tile's size smaller
\* than it was, and the write of a load exactly the tile's size larger.
C5_ResidentBytesExact ==
    /\ [](tex_aux # <<>> => tex_aux.assert_failed = FALSE)
    /\ [][\A t \in DOMAIN tex_thr :
             /\ (tex_thr[t].pc = "unload_write" /\ tex_thr'[t].pc = "idle")
                   => tex_mem'.m_memory_size =
                        tex_mem.m_memory_size - TileMemorySize(tex_thr[t].key)
             /\ (tex_thr[t].pc = "load_write" /\ tex_thr'[t].pc = "peak_write")
                   => tex_mem'.m_memory_size =
                        tex_mem.m_memory_size + TileMemorySize(tex_thr[t].key)]_vars

\* C6 (SpecTex).  Between two evictions of a key, load runs at most once
\* for it, and at most one thread at a time is inside load for a key.
Loading(k) ==
    {t \in DOMAIN tex_thr :
        /\ tex_thr[t].key = k
        /\ tex_thr[t].pc \in {"load", "load_write", "peak_write", "pin"}}

C7_FreshRecordPinned ==
    \A t \in DOMAIN tex_thr :
        tex_thr[t].pc = "pin" => tex_tile[tex_thr[t].key].m_owners >= 1

\* The sequence indices generator g has evaluated, and those among them it
\* has not handed to the framebuffer yet.
EvaluatedBy(g) ==
    {n \in 0 .. gen[g].m_sequence_index - 1 :
        (n \div SampleBatchSize) % ThreadCount = g}

PendingOf(g) ==
    IF job[g].pc \in {"reserve", "generate", "done"}
    THEN {}
    ELSE Range(StoredSamples(gen[g]))

\* C15 (SpecAll).  No thread owns the framebuffer's lock while it is inside
\* the texture store (holding or waiting for a key's load serialization),
\* no thread inside the texture store is at a store into the framebuffer,
\* and as long as some job is not done some thread can take a step.
C15_NoDeadlock ==
    /\ \A g \in DOMAIN job :
          /\ g \in fb.lock =>
                /\ tex_thr[g].pc = "idle"
                /\ \A k \in DOMAIN tex_lock : g \notin tex_lock[k]
          /\ tex_thr[g].pc # "idle" =>
                job[g].pc \notin {"try", "retry", "block", "storing"}
    /\ (TexRunning /\ ~AllDone) => ENABLED NextAll

\* C15 witness: one thread owns the framebuffer's lock while another is
\* inside load, holding a key's load serialization.
C15_Witness ==
    \E g, h \in DOMAIN job :
        /\ g # h
        /\ g \in fb.lock
        /\ tex_thr[h].pc \in {"load", "load_write", "peak_write", "pin"}
        /\ h \in tex_lock[tex_thr[h].key]

\* C16 (Spec).  A generator owns the framebuffer's lock only inside the
\* framebuffer's store; no step that evaluates samples (the generator's
\* sequence index moves) is taken by a generator that owns the lock,
\* overflow samples included.
C16_NoEvaluationUnderLock ==
    /\ [](\A g \in DOMAIN job : g \in fb.lock => job[g].pc = "storing")
    /\ [][\A g \in DOMAIN gen :
             gen'[g].m_sequence_index # gen[g].m_sequence_index
                 => (g \notin fb.lock /\ g \notin fb'.lock)]_vars

\* C16 witness: a generator has just evaluated overflow samples while
\* another generator owns the lock.
C16_Witness ==
    \E g, h \in DOMAIN job :
        /\ g # h
        /\ h \in fb.lock
        /\ job[g].pc = "retry"
        /\ gen[g].m_additional_sample_count > 0

C11_RefusedUnloadChangesNothing ==
    [][\A t \in DOMAIN tex_thr : \A k \in DOMAIN tex_tile :
          (tex_tile[k].m_owners > 0 /\ TexEvict(t, k)) =>
              /\ StillInUse(tex_tile[k])
              /\ UNCHANGED <<tex_tile, tex_mem, tex_thr, tex_aux>>]_vars

\* C11 witness: unload is called on a resident tile that is pinned, after
\* another tile has been unloaded.
C11_Witness ==
    \E t \in DOMAIN tex_thr : \E k \in DOMAIN tex_tile :
        /\ tex_tile[k].in_cache
        /\ tex_tile[k].m_tile
        /\ tex_tile[k].m_owners > 0
        /\ tex_mem.m_memory_size > 0
        /\ tex_mem.m_peak_memory_size > tex_mem.m_memory_size
        /\ ENABLED TexEvict(t, k)

\* C12 (SpecTex).  The owners count of a tile of the cache is the number of
\* get calls on its key that have returned and are not yet matched by a
\* release, and it is never negative.
OutstandingGets(k) ==
    SumOver([t \in DOMAIN tex_thr |-> tex_thr[t].held[k]], DOMAIN tex_thr)

C12_OwnersCountOutstanding ==
    \A k \in DOMAIN tex_tile :
        /\ tex_tile[k].m_owners >= 0
        /\ tex_tile[k].in_cache => tex_tile[k].m_owners = OutstandingGets(k)

\* C13 (SpecTex).  Whenever no thread is between the read and the write of
\* an update of m_memory_size, m_memory_size is the sum of the sizes of the
\* tiles whose payload is loaded.
ResidentTileBytes ==
    SumOver([k \in DOMAIN tex_tile |->
                IF tex_tile[k].m_tile THEN TileMemorySize(k) ELSE 0],
            DOMAIN tex_tile)

C13_ResidentBytesIsSum ==
    (\A t \in DOMAIN tex_thr :
        tex_thr[t].pc \notin {"load_write", "unload_write"})
        => tex_mem.m_memory_size = ResidentTileBytes

\* C14 (SpecTex).  m_peak_memory_size is never below m_memory_size once the
\* loads in progress have written it, and it never decreases.
C14_PeakIsRunningMax ==
    /\ []((\A t \in DOMAIN tex_thr :
             tex_thr[t].pc \notin {"load_write", "peak_write", "unload_write"})
          => tex_mem.m_peak_memory_size >= tex_mem.m_memory_size)
    /\ [][tex_mem'.m_peak_memory_size >= tex_mem.m_peak_memory_size]_vars

StrictlyIncreasing(s) ==
    \A a, b \in DOMAIN s : a < b => s[a] < s[b]

C30_GeneratorInvariants ==
    /\ \A i \in DOMAIN seq_gen :
          LET g == seq_gen[i]
          IN  /\ g.m_current_batch_size \in 0 .. SampleBatchSize - 1
              /\ g.m_sequence_index % SampleBatchSize = g.m_current_batch_size
              /\ (g.m_sequence_index \div SampleBatchSize) % seq_count = i
              /\ StrictlyIncreasing(seq_made[i])
              /\ \A k \in DOMAIN seq_made[i] :
                    (seq_made[i][k] \div SampleBatchSize) % seq_count = i
    /\ \A i, j \in DOMAIN seq_made :
          i # j => Range(seq_made[i]) \cap Range(seq_made[j]) = {}

\* C30 witness: a generator other than the first, of at least two, stands
\* in the middle of a batch after it has jumped over the other generators'
\* batches at least once.
C30_Witness ==
    /\ seq_count >= 2
    /\ \E i \in DOMAIN seq_gen :
          /\ i >= 1
          /\ seq_gen[i].m_current_batch_size > 0
          /\ Len(seq_made[i]) > SampleBatchSize

EqualFullBatches ==
    \E k \in 0 .. MaxSampleCount :
        \A g \in Generators :
            /\ Cardinality(EvaluatedBy(g)) = k * SampleBatchSize
            /\ gen[g].m_current_batch_size = 0

C21_UnknownColorSpaceIsFatal ==
    \A i \in DOMAIN ld :
        (ld[i].source.present /\ ld[i].color_space \notin KnownColorSpaces) =>
            /\ ~ld[i].resident
            /\ ld[i].swapper = NewTileSwapper

\* C22 (SpecLoad).  When load_tile yields no tile, load ends there: it does
\* not go on to the accounting or into a use of the missing tile, no
\* record becomes resident, and m_memory_size and m_peak_memory_size stay
\* as they were.
C22_LoadFailureIsFatal ==
    \A i \in DOMAIN ld :
        ~ld[i].source.present =>
            /\ ld[i].pc \notin {"account", "undefined"}
            /\ ~ld[i].resident
            /\ ld[i].swapper = NewTileSwapper

\* C23 (SpecLoad).  The tile a load has made resident is the tile load_tile
\* returned, normalized once according to the texture's color space:
\* unchanged for linear RGB; for sRGB each of the three color channels is
\* the sRGB decoding of the source channel and for CIE XYZ the three color
\* channels are the XYZ to RGB transform of the source's three; the alpha
\* channel of a 4-channel tile is the source's in every case.
ColorOf(pixel) == SubSeq(pixel, 1, 3)

C23_NormalizedOnceByColorSpace ==
    \A i \in DOMAIN ld :
        LET u == ld[i]
            tile == u.record.m_tile
        IN  (u.resident /\ u.source.present /\ u.color_space \in KnownColorSpaces) =>
                /\ tile.present
                /\ tile.channel_count = u.source.channel_count
                /\ DOMAIN tile.pixels = DOMAIN u.source.pixels
                /\ \A p \in DOMAIN tile.pixels :
                      LET raw == u.source.pixels[p]
                          out == tile.pixels[p]
                      IN  /\ Len(out) = Len(raw)
                          /\ \A c \in 4 .. Len(raw) : out[c] = raw[c]
                          /\ u.color_space = "ColorSpaceLinearRGB" =>
                                ColorOf(out) = ColorOf(raw)
                          /\ u.color_space = "ColorSpaceSRGB" =>
                                \A c \in 1 .. 3 : out[c] = srgb_decode(raw[c])
                          /\ u.color_space = "ColorSpaceCIEXYZ" =>
                                ColorOf(out) = ciexyz_to_linear_rgb(ColorOf(raw))

\* C23 witness: a 4-channel sRGB tile is resident, loaded for the second
\* time, whose source has 0.5 in a color channel and in the alpha channel
\* (a value that decoding changes, and changes again if applied twice).
C23_Witness ==
    \E i \in DOMAIN ld :
        /\ ld[i].resident
        /\ ld[i].color_space = "ColorSpaceSRGB"
        /\ ld[i].source.present
        /\ ld[i].source.channel_count = 4
        /\ ld[i].source.pixels[1][1] = 500
        /\ ld[i].source.pixels[1][4] = 500
        /\ ld[i].record.m_tile.pixels[1][1] # 500
        /\ ld[i].swapper.m_peak_memory_size > 0
        /\ "unloading tile" \in ld[i].log

\* C27 (SpecLoad).  In a resident tile of an sRGB texture, a color channel
\* whose source value is 0.0 holds 0.0, one whose source value is 1.0 holds
\* 1.0, and one whose source value is 0.5 holds 0.214 to within 0.001.
C27_SrgbDecodingValues ==
    \A i \in DOMAIN ld :
        LET u == ld[i]
        IN  (u.resident /\ u.source.present /\ u.color_space = "ColorSpaceSRGB") =>
                \A p \in DOMAIN u.source.pixels : \A c \in 1 .. 3 :
                    LET raw == u.source.pixels[p][c]
                        out == u.record.m_tile.pixels[p][c]
                    IN  /\ raw = 0 => out = 0
                        /\ raw = 1000 => out = 1000
                        /\ raw = 500 => out \in 213 .. 215

\* C27 witness: a resident sRGB tile with a pixel whose three color
\* channels were 0.5, 1.0 and 0.0 in the source.
C27_Witness ==
    \E i \in DOMAIN ld :
        /\ ld[i].resident
        /\ ld[i].color_space = "ColorSpaceSRGB"
        /\ ld[i].source.present
        /\ ColorOf(ld[i].source.pixels[1]) = <<500, 1000, 0>>
        /\ ColorOf(ld[i].record.m_tile.pixels[1]) = <<214, 1000, 0>>

StoreObservable(u) ==
    [pc |-> u.pc, record |-> u.record, resident |-> u.resident,
     swapper |-> u.swapper, stats |-> u.stats]

GeneratorObservable(c) ==
    [gen |-> c.gen, made |-> c.made, alive |-> c.alive]

C25_DiagnosticsChangeNothing ==
    /\ \A k1, k2 \in DOMAIN ld :
          StoreObservable(ld[k1]) = StoreObservable(ld[k2])
    /\ \A k1, k2 \in DOMAIN co :
          GeneratorObservable(co[k1]) = GeneratorObservable(co[k2])

\* C25 witness: the run with all three store diagnostics on has logged a
\* load, the store's size and an unload, the other run has logged nothing,
\* the tile is resident for the second time and a report has been made.
C25_Witness ==
    /\ ld # <<>>
    /\ ld[1].log = {}
    /\ {"loading tile", "unloading tile"} \subseteq ld[2].log
    /\ ld[2].log \cap {"above capacity", "below capacity"} # {}
    /\ ld[2].resident
    /\ ld[2].stats.reported
    /\ ld[2].swapper.m_memory_size > 0

\* C31 (Spec).  Every sample a generator generates is committed exactly
\* once.  A call of generate_samples starts with nothing of the generator
\* uncommitted and with a local count equal to the reserved batch; a
\* commit hands over exactly the samples the generator has evaluated and
\* not yet committed (the batch, plus the overflow samples on the
\* contention path), none of which the framebuffer holds already, and the
\* framebuffer's count grows by their number.
C31_CommittedExactlyOnce ==
    [][\A g \in DOMAIN job :
          /\ (job[g].pc = "generate" /\ job'[g].pc # "generate")
                => /\ gen'[g].m_sample_count = job[g].sample_count
                   /\ EvaluatedBy(g) \subseteq fb.indices
                   /\ Range(StoredSamples(gen'[g])) \cap fb.indices = {}
          /\ (job[g].pc = "storing" /\ job'[g].pc = "reserve")
                => LET committed == Range(StoredSamples(gen[g]))
                   IN  /\ committed = EvaluatedBy(g) \ fb.indices
                       /\ Cardinality(committed) = gen[g].m_sample_count
                       /\ gen[g].m_sample_count >= job[g].sample_count
                       /\ (~contention =>
                             gen[g].m_sample_count = job[g].sample_count)
                       /\ fb'.indices = fb.indices \cup committed
                       /\ fb'.count = fb.count + gen[g].m_sample_count]_vars

\* C31 witness: a generator that committed overflow samples in an earlier
\* call is committing again, and the framebuffer holds none of the samples
\* it is about to receive.
C31_Witness ==
    \E g \in DOMAIN job :
        /\ job[g].pc = "storing"
        /\ gen[g].m_additional_sample_count > 0
        /\ gen[g].m_sample_count = job[g].sample_count
        /\ EvaluatedBy(g) \cap fb.indices # {}
        /\ Range(StoredSamples(gen[g])) \cap fb.indices = {}

\* C32 (FairSpec).  In the build without the contention path each job
\* cycles reserve -> generate -> commit -> reserve: a non-zero grant takes
\* the job into generate_samples with that count and a zero grant ends it;
\* generate_samples evaluates exactly the granted number of samples; the
\* blocking store follows and the framebuffer changes only in the commit
\* that ends it, so there is exactly one commit between two reserves and
\* none without a generation before it; and every generation is
\* eventually followed by its commit.
C32_GeneratorCycle ==
    /\ [][contention \/ \A g \in DOMAIN job :
             /\ job'[g].pc # job[g].pc
                   => <<job[g].pc, job'[g].pc>> \in
                         {<<"reserve", "generate">>, <<"reserve", "done">>,
                          <<"generate", "block">>, <<"block", "storing">>,
                          <<"storing", "reserve">>}
             /\ (job[g].pc = "reserve" /\ job'[g] # job[g])
                   => /\ job'[g].sample_count =
                            Remaining(counter) - Remaining(counter')
                      /\ job'[g].pc = "generate" <=> job'[g].sample_count > 0
                      /\ gen'[g] = gen[g]
                      /\ fb' = fb
             /\ job[g].pc = "generate"
                   => /\ Cardinality(EvaluatedBy(g)') =
                            IF job'[g].pc = "generate"
                            THEN Cardinality(EvaluatedBy(g))
                            ELSE Cardinality(EvaluatedBy(g))
                                     + job[g].sample_count
                      /\ job'[g].pc = "generate" \/ fb' = fb
             /\ job[g].pc \in {"block", "storing"}
                   => /\ gen'[g].m_samples = gen[g].m_samples
                      /\ gen'[g].m_sample_count = gen[g].m_sample_count
                      /\ gen'[g].m_sequence_index = gen[g].m_sequence_index
                      /\ counter' = counter \/ job'[g] = job[g]
             /\ fb'.count # fb.count
                   => \E h \in DOMAIN job :
                         /\ job[h].pc = "storing"
                         /\ job'[h].pc = "reserve"
                         /\ fb'.count = fb.count + job[h].sample_count]_vars
    /\ \A g \in Generators :
          (~contention /\ gen # <<>> /\ job[g].pc = "generate")
              ~> (job[g].pc = "reserve" /\ EvaluatedBy(g) \subseteq fb.indices)

\* C32 witness: in the build without the contention path a job is back at
\* its reserve after two full cycles while another job waits for the
\* framebuffer's lock with its batch generated.
C32_Witness ==
    \E g, h \in DOMAIN job :
        /\ ~contention
        /\ job[g].pc = "reserve"
        /\ Cardinality(EvaluatedBy(g)) >= 2 * BatchSize
        /\ EvaluatedBy(g) \subseteq fb.indices
        /\ job[h].pc = "block"
        /\ PendingOf(h) # {}

\* C33 (SpecCoord).  The sampling context of a sample is seeded with the
\* sequence index its coordinates were computed from: the coordinates are
\* the Halton point of the seed.  No two samples of one generator have the
\* same seed, and no two samples of two generators of one run (same
\* stride, different first batch) have the same seed.
SeedsOf(c) == {c.made[a].seed : a \in DOMAIN c.made}

SameRun(c, d) ==
    /\ c.gen.m_stride = d.gen.m_stride
    /\ c.made # <<>>
    /\ d.made # <<>>
    /\ c.made[1].index # d.made[1].index

C33_SeedIsSequenceIndex ==
    /\ \A k \in DOMAIN co :
          /\ \A a \in DOMAIN co[k].made :
                /\ co[k].made[a].seed = co[k].made[a].index
                /\ co[k].made[a].s =
                      halton_sequence(Bases, co[k].made[a].seed)
          /\ Cardinality(SeedsOf(co[k])) = Len(co[k].made)
    /\ \A k1, k2 \in DOMAIN co :
          SameRun(co[k1], co[k2]) => SeedsOf(co[k1]) \cap SeedsOf(co[k2]) = {}

\* C33 witness: two generators of one run of three have each evaluated
\* more than two batches, with seeds that are all different.
C33_Witness ==
    /\ co # <<>>
    /\ SameRun(co[1], co[2])
    /\ co[1].gen.m_stride = 2 * SampleBatchSize
    /\ Len(co[1].made) > 2 * SampleBatchSize
    /\ Len(co[2].made) > 2 * SampleBatchSize
    /\ Cardinality(SeedsOf(co[1]) \cup SeedsOf(co[2])) =
          Len(co[1].made) + Len(co[2].made)

\* C34 (Spec).  On the contention path of store_samples the local buffer
\* is never overrun: once the first try has failed, the buffer has been
\* sized to the batch plus AdditionalSampleCount, and from then to the
\* commit neither m_sample_count nor the highest slot written exceeds
\* that size, whatever the counter grants (full batches of
\* AdditionalSampleBatchSize, a partial last grant, or 0).
OnContentionPath(g) ==
    \/ job[g].pc \in {"additional", "retry"}
    \/ contention /\ job[g].pc = "block"
    \/ job[g].pc = "storing" /\ job[g].tries > 1

C34_BufferNeverOverrun ==
    \A g \in DOMAIN job :
        OnContentionPath(g) =>
            /\ job[g].max_sample_count =
                  job[g].sample_count + AdditionalSampleCount
            /\ gen[g].m_sample_count <= job[g].max_sample_count
            /\ Len(gen[g].m_samples) <= job[g].max_sample_count

\* C34 witness: a generator has filled the whole buffer (the loop has
\* ended on its size test) and another has left the loop after a partial
\* grant followed by a grant of 0.
C34_Witness ==
    \E g, h \in DOMAIN job :
        /\ g # h
        /\ OnContentionPath(g)
        /\ gen[g].m_sample_count = job[g].max_sample_count
        /\ Len(gen[g].m_samples) = job[g].max_sample_count
        /\ job[h].pc = "block"
        /\ job[h].batches > 0
        /\ (gen[h].m_sample_count - job[h].sample_count)
               % AdditionalSampleBatchSize # 0

\* C35 (Spec).  The precondition sample_count > 0 of generate_samples
\* holds at every call: a job is inside generate_samples only with the
\* non-zero count its last reserve granted, and on the contention path
\* generate_sample_vector is only called with a non-zero grant; a grant
\* of 0 ends the loop of execute, respectively the loop of store_samples,
\* without generating anything.
C35_PositiveCountsOnly ==
    /\ [](\A g \in DOMAIN job :
             job[g].pc \in {"generate", "try", "additional", "retry",
                            "block", "storing"}
                 => (job[g].sample_count > 0
                        /\ job[g].sample_count <= BatchSize))
    /\ [][\A g \in DOMAIN job :
             /\ (job[g].pc = "reserve" /\ job'[g] # job[g])
                   => /\ job'[g].sample_count =
                            Remaining(counter) - Remaining(counter')
                      /\ job'[g].sample_count = 0 <=> Remaining(counter) = 0
                      /\ job'[g].pc =
                            IF Remaining(counter) = 0
                            THEN "done" ELSE "generate"
             /\ (job[g].pc = "additional" /\ job'[g] # job[g])
                   => LET additional_sample_count ==
                              Remaining(counter) - Remaining(counter')
                      IN  /\ gen'[g].m_sample_count =
                                gen[g].m_sample_count + additional_sample_count
                          /\ job'[g].pc = "retry"
                                <=> additional_sample_count > 0
                          /\ additional_sample_count = 0
                                => (gen'[g] = gen[g] /\ job'[g].pc = "block")
             /\ gen'[g].m_samples # gen[g].m_samples
                   => gen'[g].m_sequence_index > gen[g].m_sequence_index]_vars

\* C35 witness: a job has left the loop of execute on a grant of 0 while
\* another, on the contention path, has left the loop of store_samples on
\* a grant of 0 after generating overflow samples.
C35_Witness ==
    \E g, h \in DOMAIN job :
        /\ job[g].pc = "done"
        /\ job[g].sample_count = 0
        /\ job[h].pc = "block"
        /\ job[h].batches > 0
        /\ Remaining(counter) = 0
        /\ gen[h].m_sample_count < job[h].max_sample_count

\* C37 (Spec).  Each commit of a generator adds one to exactly one of its
\* three lock-acquisition counters and no other step changes them, so
\* that, starting from zero before the first commit, their sum is the
\* number of commits of the generator.  The counter incremented is the
\* one of the call that stored the samples.  In the build without the
\* contention path only the after-blocking counter moves and the
\* additional-sample counter stays 0.
AcquisitionCount(g) ==
    g.m_pfb_lock_acquired_immediately
        + g.m_pfb_lock_acquired_after_additional_work
        + g.m_pfb_lock_acquired_after_blocking

C37_OneCounterPerCommit ==
    /\ [](\A g \in DOMAIN gen :
             /\ EvaluatedBy(g) \cap fb.indices = {}
                   => AcquisitionCount(gen[g]) = 0
             /\ EvaluatedBy(g) \cap fb.indices # {}
                   => AcquisitionCount(gen[g]) > 0
             /\ ~contention
                   => /\ gen[g].m_pfb_lock_acquired_immediately = 0
                      /\ gen[g].m_pfb_lock_acquired_after_additional_work = 0
                      /\ gen[g].m_additional_sample_count = 0)
    /\ [][\A g \in DOMAIN gen :
             LET immediately ==
                     gen'[g].m_pfb_lock_acquired_immediately
                         - gen[g].m_pfb_lock_acquired_immediately
                 after_additional_work ==
                     gen'[g].m_pfb_lock_acquired_after_additional_work
                         - gen[g].m_pfb_lock_acquired_after_additional_work
                 after_blocking ==
                     gen'[g].m_pfb_lock_acquired_after_blocking
                         - gen[g].m_pfb_lock_acquired_after_blocking
                 commits ==
                     /\ g \in fb.lock
                     /\ fb'.indices =
                           fb.indices \cup Range(StoredSamples(gen[g]))
                     /\ fb'.indices # fb.indices
             IN  /\ {immediately, after_additional_work, after_blocking}
                        \subseteq {0, 1}
                 /\ immediately + after_additional_work + after_blocking =
                        IF commits THEN 1 ELSE 0
                 /\ immediately = 1
                        => (job[g].tries = 1 /\ job[g].batches = 0)
                 /\ after_additional_work = 1
                        => (job[g].tries > 1 /\ job[g].batches > 0)
                 /\ after_blocking = 1
                        => (~contention \/ job[g].tries > job[g].batches)]_vars

\* C37 witness: a generator has committed through each of the three calls
\* at least once.
C37_Witness ==
    \E g \in DOMAIN gen :
        /\ gen[g].m_pfb_lock_acquired_immediately > 0
        /\ gen[g].m_pfb_lock_acquired_after_additional_work > 0
        /\ gen[g].m_pfb_lock_acquired_after_blocking > 0
        /\ gen[g].m_additional_sample_count > 0

\* C38 (SpecParams).  The default advertised for max_size by
\* get_params_metadata is the memory limit Parameters uses when max_size
\* is not supplied, and the limit of constructed Parameters is greater
\* than 0.
C38_DefaultMaxSizeConsistent ==
    pa # <<>> =>
        /\ (pa.metadata.queried /\ pa.pc = "constructed"
                /\ ~pa.params.max_size.present)
              => pa.parameters.m_memory_limit = pa.metadata.default
        /\ pa.pc = "constructed" => pa.parameters.m_memory_limit > 0

\* C36 (SpecScene).  The swapper knows every assembly of the scene, at any
\* depth.  The tile of a key is loaded from the texture with the key's
\* texture identifier in the container the key's scope names (the scene's
\* own container for the root scope, the container of the assembly with
\* that identifier otherwise), at the key's tile coordinates; an eviction
\* hands the tile back to that same texture at the same coordinates; no
\* null pointer is dereferenced.
TextureOfKey(scene, key) ==
    CHOOSE t \in AllTextures(scene) :
        /\ t.uid = key.m_texture_uid
        /\ t.container = key.m_assembly_uid
        /\ t.uid \in (IF key.m_assembly_uid = RootScope
                      THEN scene.textures.uids
                      ELSE scene.assemblies[key.m_assembly_uid].textures.uids)

C36_SameTextureInLoadAndUnload ==
    sc # <<>> =>
        /\ sc.pc # "undefined"
        /\ sc.pc # "new" =>
              DOMAIN sc.m_assemblies = DOMAIN sc.scene.assemblies
        /\ sc.pc = "loaded" =>
              sc.record.m_tile =
                  [texture |-> TextureOfKey(sc.scene, sc.key),
                   x |-> sc.key.tile_x, y |-> sc.key.tile_y]
        /\ sc.pc = "unloaded" =>
              /\ sc.unload_tile.texture = sc.record.m_tile.texture
              /\ sc.unload_tile.texture = TextureOfKey(sc.scene, sc.key)
              /\ sc.unload_tile.tile = sc.record.m_tile
              /\ sc.unload_tile.x = sc.record.m_tile.x
              /\ sc.unload_tile.y = sc.record.m_tile.y

\* C36 witness: the tile of a texture of an assembly nested two levels
\* deep has been loaded and evicted, at coordinates that differ.
C36_Witness ==
    /\ sc # <<>>
    /\ sc.pc = "unloaded"
    /\ sc.key.m_assembly_uid # RootScope
    /\ sc.key.tile_x # sc.key.tile_y
    /\ LET parent == sc.scene.assemblies[sc.key.m_assembly_uid].parent
       IN  /\ parent # RootScope
           /\ sc.scene.assemblies[parent].parent # RootScope
    /\ sc.unload_tile.texture.container = sc.key.m_assembly_uid

=============================================================================
